---- MODULE Spec2Model ----
(***************************************************************************)
(* Model of Init/Lean/Meta/Tactic/Intro.c: the hypothesis-introduction     *)
(* engine (introNCore / introNCoreAux / withNewLocalInstances / mkAuxName) *)
(* as a step-wise state machine over the threaded Meta state.              *)
(***************************************************************************)
EXTENDS Integers, Sequences, FiniteSets, TLC

\* ------------------------------------------------------------------ bounds
MaxN == 3
MaxCalls == 2
MaxFresh == 6
MaxFairCalls == 1

\* ------------------------------------------------------------------- terms
BVar(i) == [k |-> "bvar", i |-> i]
FVar(id) == [k |-> "fvar", id |-> id]
MVar(id) == [k |-> "mvar", id |-> id]
Const(c) == [k |-> "const", c |-> c]
App(f, a) == [k |-> "app", f |-> f, a |-> a]
Forall(nm, data, d, b) == [k |-> "forall", name |-> nm, data |-> data, dom |-> d, body |-> b]
LetE(nm, t, v, b) == [k |-> "let", name |-> nm, type |-> t, val |-> v, body |-> b]
Lam(nm, bi, d, b) == [k |-> "lam", name |-> nm, bi |-> bi, dom |-> d, body |-> b]

\* user names: <<base, index>>; index 0 is the plain name
Name(s) == <<s, 0>>
Placeholder == Name("_")

\* 64-bit packed Expr.Data as four 16-bit limbs, most significant first
DataOfBinderInfo(bi) == <<0, bi * 32, 0, 0>>
DataDefault == DataOfBinderInfo(0)
DataInstImplicit == <<65535, 3 * 32 + 7, 1, 9>>

Shl24(data) ==
  << ((data[2] % 256) * 256) + (data[3] \div 256),
     ((data[3] % 256) * 256) + (data[4] \div 256),
     (data[4] % 256) * 256,
     0 >>

Shr61(data) == data[1] \div 8192

BinderInfoBug(data) == Shr61(data)

BinderInfo(data) == Shr61(Shl24(data))

\* -------------------------------------------------- expression primitives
RECURSIVE Inst(_, _, _, _, _)
Inst(e, d, beg, end, subst) ==
  CASE e.k = "bvar" ->
         IF e.i < d THEN e
         ELSE IF e.i - d < end - beg THEN subst[end - (e.i - d)]
         ELSE BVar(e.i - (end - beg))
    [] e.k = "app" -> App(Inst(e.f, d, beg, end, subst), Inst(e.a, d, beg, end, subst))
    [] e.k = "forall" ->
         Forall(e.name, e.data, Inst(e.dom, d, beg, end, subst),
                Inst(e.body, d + 1, beg, end, subst))
    [] e.k = "lam" ->
         Lam(e.name, e.bi, Inst(e.dom, d, beg, end, subst),
             Inst(e.body, d + 1, beg, end, subst))
    [] e.k = "let" ->
         LetE(e.name, Inst(e.type, d, beg, end, subst), Inst(e.val, d, beg, end, subst),
              Inst(e.body, d + 1, beg, end, subst))
    [] OTHER -> e

\* lean_expr_instantiate_rev_range(e, beg, end, subst): loose bound variable i
\* (i < end - beg) becomes subst[end - 1 - i] (0-based); higher ones are lowered.
InstantiateRevRange(e, beg, end, subst) ==
  IF beg = end THEN e ELSE Inst(e, 0, beg, end, subst)

RECURSIVE LooseBVars(_, _)
LooseBVars(e, d) ==
  CASE e.k = "bvar" -> IF e.i >= d THEN {e.i - d} ELSE {}
    [] e.k = "app" -> LooseBVars(e.f, d) \cup LooseBVars(e.a, d)
    [] e.k \in {"forall", "lam"} -> LooseBVars(e.dom, d) \cup LooseBVars(e.body, d + 1)
    [] e.k = "let" ->
         LooseBVars(e.type, d) \cup LooseBVars(e.val, d) \cup LooseBVars(e.body, d + 1)
    [] OTHER -> {}

RECURSIVE FVarsOf(_)
FVarsOf(e) ==
  CASE e.k = "fvar" -> {e.id}
    [] e.k = "app" -> FVarsOf(e.f) \cup FVarsOf(e.a)
    [] e.k \in {"forall", "lam"} -> FVarsOf(e.dom) \cup FVarsOf(e.body)
    [] e.k = "let" -> FVarsOf(e.type) \cup FVarsOf(e.val) \cup FVarsOf(e.body)
    [] OTHER -> {}

RECURSIVE AbstractFVar(_, _, _)
AbstractFVar(e, id, d) ==
  CASE e.k = "fvar" -> IF e.id = id THEN BVar(d) ELSE e
    [] e.k = "app" -> App(AbstractFVar(e.f, id, d), AbstractFVar(e.a, id, d))
    [] e.k = "forall" ->
         Forall(e.name, e.data, AbstractFVar(e.dom, id, d), AbstractFVar(e.body, id, d + 1))
    [] e.k = "lam" ->
         Lam(e.name, e.bi, AbstractFVar(e.dom, id, d), AbstractFVar(e.body, id, d + 1))
    [] e.k = "let" ->
         LetE(e.name, AbstractFVar(e.type, id, d), AbstractFVar(e.val, id, d),
              AbstractFVar(e.body, id, d + 1))
    [] OTHER -> e

IsForall(e) == e.k = "forall"

RECURSIVE HeadSymbol(_)
HeadSymbol(e) ==
  IF e.k = "app" THEN HeadSymbol(e.f) ELSE IF e.k = "const" THEN e.c ELSE "none"

\* ------------------------------------------------------ oracles (external)
\* whnf: delta/beta unfolding of the head symbol in a fixed environment
Whnf(e) ==
  CASE e = Const("D") ->
         Forall(Name("x"), DataDefault, Const("Nat"),
                Forall(Name("y"), DataDefault, App(Const("Q"), BVar(0)), Const("True")))
    [] e = Const("D1") -> Forall(Name("x"), DataDefault, Const("Nat"), Const("Nat"))
    [] e = Const("L") -> LetE(Name("v"), Const("Nat"), Const("zero"), Const("True"))
    [] e = Const("N") -> Const("Nat")
    [] e.k = "app" /\ e.f = Const("E") ->
         Forall(Name("c"), DataInstImplicit, App(Const("Monoid"), e.a),
                App(App(Const("P"), e.a), BVar(0)))
    [] OTHER -> e

\* isClassQuick: <<"NotClass">>, <<"IsClass", className>> or <<"Unknown">>
IsClassQuick(type) ==
  CASE HeadSymbol(type) \in {"Monoid", "Inhabited"} -> <<"IsClass", HeadSymbol(type)>>
    [] HeadSymbol(type) \in {"U1", "U2"} -> <<"Unknown">>
    [] OTHER -> <<"NotClass">>

\* isClassExpensive: <<"NotClass">> or <<"IsClass", className>>
IsClassExpensive(type) ==
  IF HeadSymbol(type) = "U1" THEN <<"IsClass", "Group">> ELSE <<"NotClass">>

\* ------------------------------------------------------------ local context
UsedNames(lc) == {lc[p].userName : p \in 1..Len(lc)}

GetUnusedName(lc, nm) ==
  IF nm \notin UsedNames(lc) THEN nm
  ELSE LET free == {q \in 1..(Len(lc) + 1) : <<nm[1], nm[2] + q>> \notin UsedNames(lc)}
       IN  <<nm[1], nm[2] + CHOOSE q \in free : \A r \in free : q <= r>>

MkLocalDecl(lc, fvarId, userName, type, bi) ==
  Append(lc, [k |-> "cdecl", fvarId |-> fvarId, userName |-> userName, type |-> type, bi |-> bi])

MkLetDecl(lc, fvarId, userName, type, val) ==
  Append(lc, [k |-> "ldecl", fvarId |-> fvarId, userName |-> userName, type |-> type, val |-> val])

FindDecl(lc, fvarId) == CHOOSE p \in 1..Len(lc) : lc[p].fvarId = fvarId

\* Meta.mkLambda xs e: abstract xs (innermost last) over e
RECURSIVE MkBinding(_, _, _, _)
MkBinding(lc, xs, m, e) ==
  IF m = 0 THEN e
  ELSE LET d == lc[FindDecl(lc, xs[m].id)]
           b == AbstractFVar(e, xs[m].id, 0)
       IN  MkBinding(lc, xs, m - 1,
                     IF d.k = "cdecl" THEN Lam(d.userName, d.bi, d.type, b)
                     ELSE LetE(d.userName, d.type, d.val, b))

MkLambda(lc, xs, e) == MkBinding(lc, xs, Len(xs), e)

\* Array.isEqvAux specialised to LocalInstance.beq, from index i (0-based)
LocalInstanceBeq(a, b) == a = b

IsEqvAuxBug(a, b, i) == TRUE

RECURSIVE IsEqvAux(_, _, _)
IsEqvAux(a, b, i) ==
  IF i < Len(a)
  THEN IF LocalInstanceBeq(a[i + 1], b[i + 1]) THEN IsEqvAux(a, b, i + 1) ELSE FALSE
  ELSE TRUE

InstancesEqvBug(a, b) == Len(a) = Len(b)

\* the guard of introNCore: same size, then element-wise equal
InstancesEqv(a, b) == IF Len(a) = Len(b) THEN IsEqvAux(a, b, 0) ELSE FALSE

\* mkAuxName lctx binderName givenNames: <<name, remaining names>>
MkAuxNameKeepBug(lc, binderName, given) ==
  IF given = <<>> THEN <<GetUnusedName(lc, binderName), given>>
  ELSE IF Head(given) # Placeholder THEN <<Head(given), given>>
  ELSE <<GetUnusedName(lc, binderName), given>>

MkAuxNameBug(lc, binderName, given) ==
  <<GetUnusedName(lc, binderName), IF given = <<>> THEN given ELSE Tail(given)>>

MkAuxName(lc, binderName, given) ==
  IF given = <<>> THEN <<GetUnusedName(lc, binderName), given>>
  ELSE IF Head(given) # Placeholder THEN <<Head(given), Tail(given)>>
  ELSE <<GetUnusedName(lc, binderName), Tail(given)>>

\* Array.umapMAux Expr.fvarId!
RECURSIVE UmapFVarId(_, _)
UmapFVarId(i, xs) ==
  IF i < Len(xs) THEN UmapFVarId(i + 1, [xs EXCEPT ![i + 1] = xs[i + 1].id]) ELSE xs

\* MetavarContext.assignExpr
AssignExpr(m, mvarId, val) == [m EXCEPT !.eAssignment = (mvarId :> val) @@ @]

IsAssigned(m, mvarId) == mvarId \in DOMAIN m.eAssignment

\* the count handed to the continuation that resumes peeling after whnf
ResumeCount(n0) == n0 - 1

ResidualTypeBug(ty, beg, xs) == ty

\* the residual goal type once the count is exhausted
ResidualType(ty, beg, xs) == InstantiateRevRange(ty, beg, Len(xs), xs)

SyntheticOpaque == 2

NewGoalDeclBug(ty, lc, insts, tag) ==
  [type |-> ty, lctx |-> lc, localInstances |-> insts, tag |-> Name("anonymous"),
   kind |-> SyntheticOpaque]

\* the declaration mkFreshExprMVar type tag MetavarKind.syntheticOpaque adds
NewGoalDecl(ty, lc, insts, tag) ==
  [type |-> ty, lctx |-> lc, localInstances |-> insts, tag |-> tag, kind |-> SyntheticOpaque]

\* ------------------------------------------------------------ bounded inputs
Nat0 == Const("Nat")
TExample ==
  Forall(Name("a"), DataDefault, Nat0,
    Forall(Name("b"), DataDefault, Nat0,
      Forall(Name("h"), DataDefault, App(App(Const("Eq"), BVar(1)), BVar(0)), Const("True"))))
TInst ==
  Forall(Name("i"), DataInstImplicit, App(Const("Monoid"), Const("A")),
    LetE(Name("v"), Nat0, App(Const("one"), BVar(0)),
      App(App(Const("P"), BVar(0)), BVar(1))))
TMid ==
  Forall(Name("i"), DataInstImplicit, App(Const("Monoid"), Const("A")),
         App(Const("E"), BVar(0)))
TUnk ==
  Forall(Name("u"), DataDefault, App(Const("U1"), Const("A")),
    Forall(Name("u"), DataDefault, App(Const("U2"), BVar(0)), Nat0))
TStuck == Forall(Name("a"), DataDefault, Nat0, Const("N"))
TNot == Forall(Name("u"), DataDefault, App(Const("U2"), Const("A")), Nat0)

GoalTypes ==
  {TExample, Nat0, TInst, TMid, TUnk, TStuck, TNot, Const("D"), Const("D1"), Const("L")}

NameLists == {<<>>, <<Placeholder, Name("a")>>}
GivenNames == {Placeholder, Name("h")}

\* identifiers below FirstFresh exist before the first call
PreIds == [unknown |-> 0, goal |-> 1, solved |-> 2, hyp |-> 3, fresh |-> 4]
GoalId == PreIds.goal
SolvedId == PreIds.solved
HypId == PreIds.hyp
FirstFresh == PreIds.fresh
UnknownId == PreIds.unknown

HypInst == [className |-> "Monoid", fvar |-> FVar(HypId)]
ForeignInst == [className |-> "Monoid", fvar |-> FVar(UnknownId)]
HypLCtx == MkLocalDecl(<<>>, HypId, Name("a"), App(Const("Monoid"), Const("B")), 3)

\* <<goal lctx, goal localInstances, caller localInstances>>
Setups ==
  { <<(<<>>), (<<>>), (<<>>)>>,
    <<HypLCtx, <<HypInst>>, <<HypInst>>>>,
    <<HypLCtx, <<HypInst>>, (<<>>)>>,
    <<HypLCtx, <<HypInst>>, <<ForeignInst>>>> }

\* ----------------------------------------------------------------- state
VARIABLES
  mctx,        \* MetavarContext: [decls, eAssignment]
  synthCache,  \* Cache.synthInstance: set of entries, each the localInstances it was computed under
  ngen,        \* name generator: next fresh identifier
  ctx,         \* the caller's Context: [lctx, localInstances]
  pc,          \* control point of the running call
  mvarId,      \* goal of the running call
  n,           \* remaining count
  lctx,        \* accumulated local context
  fvars,       \* introduced free variables (Expr.fvar)
  j,           \* first index of fvars not yet substituted / classified
  names,       \* remaining given names
  type,        \* current type
  ctxLCtx,     \* Context.lctx in force
  ctxInsts,    \* Context.localInstances in force
  i,           \* index of withNewLocalInstances
  cont,        \* continuation of withNewLocalInstances: "whnf" or "close"
  saved,       \* stack of resettingSynthInstanceCache frames: [cache, li]
  newMVar,     \* the new goal, once created
  res,         \* outcome carried to the caller while unwinding
  result,      \* what the last call returned
  entry,       \* state and arguments at the start of the running/last call
  stats,       \* per-call counters of the operations performed
  registered,  \* local instances registered by the running/last call
  calls        \* number of calls made

vars ==
  << mctx, synthCache, ngen, ctx, pc, mvarId, n, lctx, fvars, j, names, type, ctxLCtx,
     ctxInsts, i, cont, saved, newMVar, res, result, entry, stats, registered, calls >>

locals == << mvarId, n, lctx, fvars, j, names, type, ctxLCtx, ctxInsts, i, cont, newMVar >>

NoResult == [kind |-> "none"]
Ok(xs, g) == [kind |-> "ok", fvars |-> xs, mvarId |-> g]
Ok1(x, g) == [kind |-> "ok", fvar |-> x, mvarId |-> g]
Error(e) == [kind |-> "error", err |-> e]

\* Array.get! with the default of Inhabited Name
NameInhabited == UnknownId
ArrayGet(xs, idx) == IF idx < Len(xs) THEN xs[idx + 1] ELSE NameInhabited

ZeroStats ==
  [ whnf |-> 0, quick |-> 0, expensive |-> 0, minted |-> 0, mvars |-> 0, assigns |-> 0,
    resets |-> 0, restores |-> 0, checks |-> 0 ]

Bump(f) == [stats EXCEPT ![f] = @ + 1]

Init ==
  /\ \E ty \in GoalTypes, su \in Setups :
       /\ mctx =
            [ decls |->
                (GoalId :> [type |-> ty, lctx |-> su[1], localInstances |-> su[2],
                            tag |-> Name("main"), kind |-> 0])
                @@ (SolvedId :> [type |-> ty, lctx |-> su[1], localInstances |-> su[2],
                                 tag |-> Name("done"), kind |-> 0]),
              eAssignment |-> (SolvedId :> Const("trivial")) ]
       /\ ctx = [lctx |-> su[1], localInstances |-> su[3]]
       /\ synthCache = {su[3]}
  /\ ngen = FirstFresh
  /\ pc = "idle"
  /\ mvarId = UnknownId
  /\ n = 0
  /\ lctx = <<>>
  /\ fvars = <<>>
  /\ j = 0
  /\ names = <<>>
  /\ type = Nat0
  /\ ctxLCtx = <<>>
  /\ ctxInsts = <<>>
  /\ i = 0
  /\ cont = "none"
  /\ saved = <<>>
  /\ newMVar = UnknownId
  /\ res = NoResult
  /\ result = NoResult
  /\ entry = [api |-> "none", mctx |-> mctx, synthCache |-> synthCache, ngen |-> ngen,
              mvarId |-> UnknownId, n |-> 0, names |-> <<>>]
  /\ stats = ZeroStats
  /\ registered = <<>>
  /\ calls = 0

\* ------------------------------------------------- introNCore: entry and guard
Fail(e) ==
  /\ res' = Error(e)
  /\ pc' = "unwind"

\* the constant message of the error: MessageData.ofFormat (Format.text ...)
InsufficientBindersMsg == [k |-> "ofFormat", fmt |-> "insufficient number of binders"]

\* what the loop hands to throwTacticEx: tactic name, goal, message
InsufficientBindersEx(g) ==
  [kind |-> "error", err |-> "InsufficientBinders", tactic |-> Name("introN"),
   mvarId |-> g, msg |-> InsufficientBindersMsg]

Throw(e) ==
  /\ res' = e
  /\ pc' = "unwind"

Goals == DOMAIN mctx.decls \cup {UnknownId}

EmptySynthCache == {}

ResetCacheBug(cache) == cache

\* the memo after resettingSynthInstanceCache has taken it
ResetCache(cache) == EmptySynthCache

\* an entry that takes the memo before it has fetched the goal's declaration
IntroNCoreResetBug(api, g, n0, given) ==
  /\ pc = "idle"
  /\ calls < MaxCalls
  /\ calls' = calls + 1
  /\ ngen + n0 + 1 <= FirstFresh + MaxFresh
  /\ entry' = [api |-> api, mctx |-> mctx, synthCache |-> synthCache, ngen |-> ngen,
               mvarId |-> g, n |-> n0, names |-> given]
  /\ registered' = <<>>
  /\ newMVar' = UnknownId
  /\ UNCHANGED <<mctx, ngen, ctx, lctx, fvars, j, type, i, cont>>
  /\ IF g \notin DOMAIN mctx.decls
     THEN /\ result' = Error("UnknownMVar")
          /\ stats' = [ZeroStats EXCEPT !.resets = 1]
          /\ synthCache' = ResetCache(synthCache)
          /\ UNCHANGED <<pc, mvarId, n, names, ctxLCtx, ctxInsts, saved, res>>
     ELSE LET decl == mctx.decls[g] IN
          /\ result' = NoResult
          /\ res' = NoResult
          /\ mvarId' = g
          /\ n' = n0
          /\ names' = given
          /\ ctxLCtx' = decl.lctx
          /\ ctxInsts' = decl.localInstances
          /\ IF InstancesEqv(ctx.localInstances, decl.localInstances)
             THEN /\ saved' = <<>>
                  /\ stats' = ZeroStats
                  /\ UNCHANGED synthCache
             ELSE /\ saved' = <<[cache |-> synthCache, li |-> ctx.localInstances]>>
                  /\ synthCache' = ResetCache(synthCache)
                  /\ stats' = [ZeroStats EXCEPT !.resets = 1]
          /\ pc' = "checkNotAssigned"

\* introNCore, up to the guard on the local instances; api is the entry point used
IntroNCore(api, g, n0, given) ==
  /\ pc = "idle"
  /\ calls < MaxCalls
  /\ calls' = calls + 1
  /\ ngen + n0 + 1 <= FirstFresh + MaxFresh
  /\ entry' = [api |-> api, mctx |-> mctx, synthCache |-> synthCache, ngen |-> ngen,
               mvarId |-> g, n |-> n0, names |-> given]
  /\ registered' = <<>>
  /\ newMVar' = UnknownId
  /\ UNCHANGED <<mctx, ngen, ctx, lctx, fvars, j, type, i, cont>>
  /\ IF g \notin DOMAIN mctx.decls
     THEN /\ result' = Error("UnknownMVar")
          /\ stats' = ZeroStats
          /\ UNCHANGED <<synthCache, pc, mvarId, n, names, ctxLCtx, ctxInsts, saved, res>>
     ELSE LET decl == mctx.decls[g] IN
          /\ result' = NoResult
          /\ res' = NoResult
          /\ mvarId' = g
          /\ n' = n0
          /\ names' = given
          /\ ctxLCtx' = decl.lctx
          /\ ctxInsts' = decl.localInstances
          /\ IF InstancesEqv(ctx.localInstances, decl.localInstances)
             THEN /\ saved' = <<>>
                  /\ stats' = ZeroStats
                  /\ UNCHANGED synthCache
             ELSE /\ saved' = <<[cache |-> synthCache, li |-> ctx.localInstances]>>
                  /\ synthCache' = ResetCache(synthCache)
                  /\ stats' = [ZeroStats EXCEPT !.resets = 1]
          /\ pc' = "checkNotAssigned"

IntroN(g, n0, given) == IntroNCore("introN", g, n0, given)

\* intro mvarId name: introN mvarId 1 [name]
Intro(g, name) == IntroNCore("intro", g, 1, <<name>>)

\* intro1 mvarId: introN mvarId 1 []
Intro1(g) == IntroNCore("intro1", g, 1, <<>>)

\* checkNotAssigned that lets an assigned goal through
CheckNotAssignedBug ==
  /\ pc = "checkNotAssigned"
  /\ stats' = Bump("checks")
  /\ pc' = "getMVarType"
  /\ UNCHANGED res
  /\ UNCHANGED <<mctx, synthCache, ngen, ctx, locals, saved, result, entry, registered, calls>>

CheckNotAssigned ==
  /\ pc = "checkNotAssigned"
  /\ stats' = Bump("checks")
  /\ IF IsAssigned(mctx, mvarId) THEN Fail("AlreadyAssigned")
     ELSE /\ pc' = "getMVarType"
          /\ UNCHANGED res
  /\ UNCHANGED <<mctx, synthCache, ngen, ctx, locals, saved, result, entry, registered, calls>>

\* a loop that starts from the empty context instead of the goal's own
GetMVarTypeBug ==
  /\ pc = "getMVarType"
  /\ type' = mctx.decls[mvarId].type
  /\ lctx' = <<>>
  /\ fvars' = <<>>
  /\ j' = 0
  /\ pc' = "peel"
  /\ UNCHANGED <<mctx, synthCache, ngen, ctx, mvarId, n, names, ctxLCtx, ctxInsts, i, cont,
                 saved, newMVar, res, result, entry, stats, registered, calls>>

GetMVarType ==
  /\ pc = "getMVarType"
  /\ type' = mctx.decls[mvarId].type
  /\ lctx' = ctxLCtx
  /\ fvars' = <<>>
  /\ j' = 0
  /\ pc' = "peel"
  /\ UNCHANGED <<mctx, synthCache, ngen, ctx, mvarId, n, names, ctxLCtx, ctxInsts, i, cont,
                 saved, newMVar, res, result, entry, stats, registered, calls>>

\* ------------------------------------------------ introNCoreAux: the peeling loop
\* a Forall binder peeled without threading the advanced name generator
PeelForallStaleIdBug ==
  /\ pc = "peel"
  /\ n # 0
  /\ type.k = "forall"
  /\ LET dom == InstantiateRevRange(type.dom, j, Len(fvars), fvars)
         nm == MkAuxName(lctx, type.name, names)
     IN  /\ lctx' = MkLocalDecl(lctx, ngen, nm[1], dom, BinderInfo(type.data))
         /\ names' = nm[2]
  /\ fvars' = Append(fvars, FVar(ngen))
  /\ n' = n - 1
  /\ type' = type.body
  /\ stats' = Bump("minted")
  /\ UNCHANGED <<mctx, synthCache, ngen, ctx, pc, mvarId, j, ctxLCtx, ctxInsts, i, cont, saved,
                 newMVar, res, result, entry, registered, calls>>

\* a Forall binder named against the goal's own context only
PeelForallBug ==
  /\ pc = "peel"
  /\ n # 0
  /\ type.k = "forall"
  /\ LET dom == InstantiateRevRange(type.dom, j, Len(fvars), fvars)
         nm == MkAuxName(mctx.decls[mvarId].lctx, type.name, names)
     IN  /\ lctx' = MkLocalDecl(lctx, ngen, nm[1], dom, BinderInfo(type.data))
         /\ names' = nm[2]
  /\ fvars' = Append(fvars, FVar(ngen))
  /\ ngen' = ngen + 1
  /\ n' = n - 1
  /\ type' = type.body
  /\ stats' = Bump("minted")
  /\ UNCHANGED <<mctx, synthCache, ctx, pc, mvarId, j, ctxLCtx, ctxInsts, i, cont, saved,
                 newMVar, res, result, entry, registered, calls>>

PeelForall ==
  /\ pc = "peel"
  /\ n # 0
  /\ type.k = "forall"
  /\ LET dom == InstantiateRevRange(type.dom, j, Len(fvars), fvars)
         nm == MkAuxName(lctx, type.name, names)
     IN  /\ lctx' = MkLocalDecl(lctx, ngen, nm[1], dom, BinderInfo(type.data))
         /\ names' = nm[2]
  /\ fvars' = Append(fvars, FVar(ngen))
  /\ ngen' = ngen + 1
  /\ n' = n - 1
  /\ type' = type.body
  /\ stats' = Bump("minted")
  /\ UNCHANGED <<mctx, synthCache, ctx, pc, mvarId, j, ctxLCtx, ctxInsts, i, cont, saved,
                 newMVar, res, result, entry, registered, calls>>

\* a Let binder introduced as a plain hypothesis, its value dropped
PeelLetBug ==
  /\ pc = "peel"
  /\ n # 0
  /\ type.k = "let"
  /\ LET ty == InstantiateRevRange(type.type, j, Len(fvars), fvars)
         nm == MkAuxName(lctx, type.name, names)
     IN  /\ lctx' = MkLocalDecl(lctx, ngen, nm[1], ty, 0)
         /\ names' = nm[2]
  /\ fvars' = Append(fvars, FVar(ngen))
  /\ ngen' = ngen + 1
  /\ n' = n - 1
  /\ type' = type.body
  /\ stats' = Bump("minted")
  /\ UNCHANGED <<mctx, synthCache, ctx, pc, mvarId, j, ctxLCtx, ctxInsts, i, cont, saved,
                 newMVar, res, result, entry, registered, calls>>

PeelLet ==
  /\ pc = "peel"
  /\ n # 0
  /\ type.k = "let"
  /\ LET ty == InstantiateRevRange(type.type, j, Len(fvars), fvars)
         val == InstantiateRevRange(type.val, j, Len(fvars), fvars)
         nm == MkAuxName(lctx, type.name, names)
     IN  /\ lctx' = MkLetDecl(lctx, ngen, nm[1], ty, val)
         /\ names' = nm[2]
  /\ fvars' = Append(fvars, FVar(ngen))
  /\ ngen' = ngen + 1
  /\ n' = n - 1
  /\ type' = type.body
  /\ stats' = Bump("minted")
  /\ UNCHANGED <<mctx, synthCache, ctx, pc, mvarId, j, ctxLCtx, ctxInsts, i, cont, saved,
                 newMVar, res, result, entry, registered, calls>>

\* a whnf branch that uses up one of the given names
PeelOtherNameBug ==
  /\ pc = "peel"
  /\ n # 0
  /\ type.k \notin {"forall", "let"}
  /\ n' = ResumeCount(n)
  /\ names' = IF names = <<>> THEN names ELSE Tail(names)
  /\ ctxLCtx' = lctx
  /\ i' = j
  /\ cont' = "whnf"
  /\ pc' = "classify"
  /\ UNCHANGED <<mctx, synthCache, ngen, ctx, mvarId, lctx, fvars, j, type, ctxInsts,
                 saved, newMVar, res, result, entry, stats, registered, calls>>

\* neither Forall nor Let: classify the new hypotheses, then whnf
PeelOther ==
  /\ pc = "peel"
  /\ n # 0
  /\ type.k \notin {"forall", "let"}
  /\ n' = ResumeCount(n)
  /\ ctxLCtx' = lctx
  /\ i' = j
  /\ cont' = "whnf"
  /\ pc' = "classify"
  /\ UNCHANGED <<mctx, synthCache, ngen, ctx, mvarId, lctx, fvars, j, names, type, ctxInsts,
                 saved, newMVar, res, result, entry, stats, registered, calls>>

\* count exhausted, the residual type reduced by whnf
PeelDoneWhnfBug ==
  /\ pc = "peel"
  /\ n = 0
  /\ type' = Whnf(ResidualType(type, j, fvars))
  /\ ctxLCtx' = lctx
  /\ i' = j
  /\ cont' = "close"
  /\ pc' = "classify"
  /\ UNCHANGED <<mctx, synthCache, ngen, ctx, mvarId, n, lctx, fvars, j, names, ctxInsts,
                 saved, newMVar, res, result, entry, stats, registered, calls>>

\* count exhausted, the new hypotheses left unclassified
PeelDoneSkipBug ==
  /\ pc = "peel"
  /\ n = 0
  /\ type' = ResidualType(type, j, fvars)
  /\ ctxLCtx' = lctx
  /\ i' = Len(fvars)
  /\ cont' = "close"
  /\ pc' = "classify"
  /\ UNCHANGED <<mctx, synthCache, ngen, ctx, mvarId, n, lctx, fvars, j, names, ctxInsts,
                 saved, newMVar, res, result, entry, stats, registered, calls>>

\* count exhausted: the residual type, then classify and close
PeelDone ==
  /\ pc = "peel"
  /\ n = 0
  /\ type' = ResidualType(type, j, fvars)
  /\ ctxLCtx' = lctx
  /\ i' = j
  /\ cont' = "close"
  /\ pc' = "classify"
  /\ UNCHANGED <<mctx, synthCache, ngen, ctx, mvarId, n, lctx, fvars, j, names, ctxInsts,
                 saved, newMVar, res, result, entry, stats, registered, calls>>

\* ------------------------------------------------------ withNewLocalInstances
\* the new instance put in front of the array
PushInstanceFrontBug(insts, className, fvar) ==
  <<[className |-> className, fvar |-> fvar]>> \o insts

PushInstance(insts, className, fvar) ==
  Append(insts, [className |-> className, fvar |-> fvar])

\* an oracle that resolves instances may memoise under the instances in force
Memoise(add) == IF add THEN synthCache \cup {ctxInsts} ELSE synthCache

DeclType(fvar) == ctxLCtx[FindDecl(ctxLCtx, fvar.id)].type

\* a registration that saves the memo only after it has emptied it
RegisterSaveAfterBug(cache, className, fvar) ==
  /\ saved' = Append(saved, [cache |-> ResetCache(cache), li |-> ctxInsts])
  /\ synthCache' = ResetCache(cache)
  /\ ctxInsts' = PushInstance(ctxInsts, className, fvar)
  /\ registered' = Append(registered, [className |-> className, fvar |-> fvar])
  /\ i' = i + 1

Register(cache, className, fvar) ==
  /\ saved' = Append(saved, [cache |-> cache, li |-> ctxInsts])
  /\ synthCache' = ResetCache(cache)
  /\ ctxInsts' = PushInstance(ctxInsts, className, fvar)
  /\ registered' = Append(registered, [className |-> className, fvar |-> fvar])
  /\ i' = i + 1

ClassifyEnd ==
  /\ pc = "classify"
  /\ ~(i < Len(fvars))
  /\ pc' = cont
  /\ UNCHANGED <<mctx, synthCache, ngen, ctx, locals, saved, res, result, entry, stats,
                 registered, calls>>

\* a classification step that asks isClassExpensive whatever isClassQuick answered
ClassifyQuickBug ==
  /\ pc = "classify"
  /\ i < Len(fvars)
  /\ \E ok \in BOOLEAN :
       IF ~ok
       THEN /\ Fail("IsClassQuickFailed")
       ELSE /\ UNCHANGED res
            /\ pc' = "expensive"
  /\ stats' = Bump("quick")
  /\ UNCHANGED <<synthCache, ctxInsts, i, saved, registered>>
  /\ UNCHANGED <<mctx, ngen, ctx, mvarId, n, lctx, fvars, j, names, type, ctxLCtx, cont,
                 newMVar, result, entry, calls>>

ClassifyQuick ==
  /\ pc = "classify"
  /\ i < Len(fvars)
  /\ \E ok \in BOOLEAN :
       IF ~ok
       THEN /\ Fail("IsClassQuickFailed")
            /\ stats' = Bump("quick")
            /\ UNCHANGED <<synthCache, ctxInsts, i, saved, registered>>
       ELSE LET fvar == fvars[i + 1]
                r == IsClassQuick(DeclType(fvar))
            IN  /\ UNCHANGED res
                /\ CASE r[1] = "NotClass" ->
                          /\ i' = i + 1
                          /\ pc' = "classify"
                          /\ stats' = Bump("quick")
                          /\ UNCHANGED <<synthCache, ctxInsts, saved, registered>>
                     [] r[1] = "IsClass" ->
                          /\ Register(synthCache, r[2], fvar)
                          /\ pc' = "classify"
                          /\ stats' = [stats EXCEPT !.quick = @ + 1, !.resets = @ + 1]
                     [] OTHER ->
                          /\ pc' = "expensive"
                          /\ stats' = Bump("quick")
                          /\ UNCHANGED <<synthCache, ctxInsts, i, saved, registered>>
  /\ UNCHANGED <<mctx, ngen, ctx, mvarId, n, lctx, fvars, j, names, type, ctxLCtx, cont,
                 newMVar, result, entry, calls>>

\* an expensive query whose NotClass answer is registered like an instance
ClassifyExpensiveBug ==
  /\ pc = "expensive"
  /\ \E ok \in BOOLEAN, add \in BOOLEAN :
       IF ~ok
       THEN /\ Fail("IsClassExpensiveFailed")
            /\ synthCache' = Memoise(add)
            /\ stats' = Bump("expensive")
            /\ UNCHANGED <<ctxInsts, i, saved, registered>>
       ELSE LET fvar == fvars[i + 1]
            IN  /\ UNCHANGED res
                /\ pc' = "classify"
                /\ Register(Memoise(add), HeadSymbol(DeclType(fvar)), fvar)
                /\ stats' = [stats EXCEPT !.expensive = @ + 1, !.resets = @ + 1]
  /\ UNCHANGED <<mctx, ngen, ctx, mvarId, n, lctx, fvars, j, names, type, ctxLCtx, cont,
                 newMVar, result, entry, calls>>

ClassifyExpensive ==
  /\ pc = "expensive"
  /\ \E ok \in BOOLEAN, add \in BOOLEAN :
       IF ~ok
       THEN /\ Fail("IsClassExpensiveFailed")
            /\ synthCache' = Memoise(add)
            /\ stats' = Bump("expensive")
            /\ UNCHANGED <<ctxInsts, i, saved, registered>>
       ELSE LET fvar == fvars[i + 1]
                r == IsClassExpensive(DeclType(fvar))
            IN  /\ UNCHANGED res
                /\ pc' = "classify"
                /\ IF r[1] = "NotClass"
                   THEN /\ i' = i + 1
                        /\ synthCache' = Memoise(add)
                        /\ stats' = Bump("expensive")
                        /\ UNCHANGED <<ctxInsts, saved, registered>>
                   ELSE /\ Register(Memoise(add), r[2], fvar)
                        /\ stats' = [stats EXCEPT !.expensive = @ + 1, !.resets = @ + 1]
  /\ UNCHANGED <<mctx, ngen, ctx, mvarId, n, lctx, fvars, j, names, type, ctxLCtx, cont,
                 newMVar, result, entry, calls>>

\* ----------------------------------- continuation 1: whnf and resume, or fail
\* a whnf continuation that resumes without moving the start of the range
WhnfStepKeepRangeBug ==
  /\ pc = "whnf"
  /\ stats' = Bump("whnf")
  /\ \E ok \in BOOLEAN, add \in BOOLEAN :
       /\ synthCache' = Memoise(add)
       /\ IF ~ok
          THEN /\ Fail("WhnfFailed")
               /\ UNCHANGED <<type, j>>
          ELSE LET newType == Whnf(InstantiateRevRange(type, j, Len(fvars), fvars))
               IN  IF IsForall(newType)
                   THEN /\ type' = newType
                        /\ j' = j
                        /\ pc' = "peel"
                        /\ UNCHANGED res
                   ELSE /\ Throw(InsufficientBindersEx(mvarId))
                        /\ UNCHANGED <<type, j>>
  /\ UNCHANGED <<mctx, ngen, ctx, mvarId, n, lctx, fvars, names, ctxLCtx, ctxInsts, i, cont,
                 saved, newMVar, result, entry, registered, calls>>

\* a whnf continuation that reduces the type without instantiating it first
WhnfStepRawBug ==
  /\ pc = "whnf"
  /\ stats' = Bump("whnf")
  /\ \E ok \in BOOLEAN, add \in BOOLEAN :
       /\ synthCache' = Memoise(add)
       /\ IF ~ok
          THEN /\ Fail("WhnfFailed")
               /\ UNCHANGED <<type, j>>
          ELSE LET newType == Whnf(type)
               IN  IF IsForall(newType)
                   THEN /\ type' = newType
                        /\ j' = Len(fvars)
                        /\ pc' = "peel"
                        /\ UNCHANGED res
                   ELSE /\ Throw(InsufficientBindersEx(mvarId))
                        /\ UNCHANGED <<type, j>>
  /\ UNCHANGED <<mctx, ngen, ctx, mvarId, n, lctx, fvars, names, ctxLCtx, ctxInsts, i, cont,
                 saved, newMVar, result, entry, registered, calls>>

\* a whnf continuation that resumes peeling on a Let as well
WhnfStepLetBug ==
  /\ pc = "whnf"
  /\ stats' = Bump("whnf")
  /\ \E ok \in BOOLEAN, add \in BOOLEAN :
       /\ synthCache' = Memoise(add)
       /\ IF ~ok
          THEN /\ Fail("WhnfFailed")
               /\ UNCHANGED <<type, j>>
          ELSE LET newType == Whnf(InstantiateRevRange(type, j, Len(fvars), fvars))
               IN  IF IsForall(newType) \/ newType.k = "let"
                   THEN /\ type' = newType
                        /\ j' = Len(fvars)
                        /\ pc' = "peel"
                        /\ UNCHANGED res
                   ELSE /\ Throw(InsufficientBindersEx(mvarId))
                        /\ UNCHANGED <<type, j>>
  /\ UNCHANGED <<mctx, ngen, ctx, mvarId, n, lctx, fvars, names, ctxLCtx, ctxInsts, i, cont,
                 saved, newMVar, result, entry, registered, calls>>

WhnfStep ==
  /\ pc = "whnf"
  /\ stats' = Bump("whnf")
  /\ \E ok \in BOOLEAN, add \in BOOLEAN :
       /\ synthCache' = Memoise(add)
       /\ IF ~ok
          THEN /\ Fail("WhnfFailed")
               /\ UNCHANGED <<type, j>>
          ELSE LET newType == Whnf(InstantiateRevRange(type, j, Len(fvars), fvars))
               IN  IF IsForall(newType)
                   THEN /\ type' = newType
                        /\ j' = Len(fvars)
                        /\ pc' = "peel"
                        /\ UNCHANGED res
                   ELSE /\ Throw(InsufficientBindersEx(mvarId))
                        /\ UNCHANGED <<type, j>>
  /\ UNCHANGED <<mctx, ngen, ctx, mvarId, n, lctx, fvars, names, ctxLCtx, ctxInsts, i, cont,
                 saved, newMVar, result, entry, registered, calls>>

\* ------------------------- continuation 2: create the new goal, assign the old
\* creating the new goal also rewrites the type of the original goal's declaration
MkFreshExprMVarRetypeBug ==
  /\ pc = "close"
  /\ mctx' = [mctx EXCEPT !.decls =
                (ngen :> NewGoalDecl(type, ctxLCtx, ctxInsts, mctx.decls[mvarId].tag))
                @@ [@ EXCEPT ![mvarId].type = type]]
  /\ newMVar' = ngen
  /\ ngen' = ngen + 1
  /\ stats' = Bump("mvars")
  /\ pc' = "assign"
  /\ UNCHANGED <<synthCache, ctx, mvarId, n, lctx, fvars, j, names, type, ctxLCtx, ctxInsts,
                 i, cont, saved, res, result, entry, registered, calls>>

\* a new goal declared in the context of the original goal
MkFreshExprMVarBug ==
  /\ pc = "close"
  /\ mctx' = [mctx EXCEPT !.decls =
                (ngen :> NewGoalDecl(type, mctx.decls[mvarId].lctx, ctxInsts,
                                     mctx.decls[mvarId].tag)) @@ @]
  /\ newMVar' = ngen
  /\ ngen' = ngen + 1
  /\ stats' = Bump("mvars")
  /\ pc' = "assign"
  /\ UNCHANGED <<synthCache, ctx, mvarId, n, lctx, fvars, j, names, type, ctxLCtx, ctxInsts,
                 i, cont, saved, res, result, entry, registered, calls>>

MkFreshExprMVar ==
  /\ pc = "close"
  /\ mctx' = [mctx EXCEPT !.decls =
                (ngen :> NewGoalDecl(type, ctxLCtx, ctxInsts, mctx.decls[mvarId].tag)) @@ @]
  /\ newMVar' = ngen
  /\ ngen' = ngen + 1
  /\ stats' = Bump("mvars")
  /\ pc' = "assign"
  /\ UNCHANGED <<synthCache, ctx, mvarId, n, lctx, fvars, j, names, type, ctxLCtx, ctxInsts,
                 i, cont, saved, res, result, entry, registered, calls>>

\* closing that returns the new goal without assigning the old one
MkLambdaAssignSkipBug ==
  /\ pc = "assign"
  /\ mctx' = mctx
  /\ stats' = Bump("assigns")
  /\ res' = Ok(fvars, newMVar)
  /\ pc' = "unwind"
  /\ UNCHANGED <<synthCache, ngen, ctx, locals, saved, result, entry, registered, calls>>

\* closing that also assigns the goal it has just created
MkLambdaAssignBug ==
  /\ pc = "assign"
  /\ mctx' = AssignExpr(AssignExpr(mctx, mvarId, MkLambda(ctxLCtx, fvars, MVar(newMVar))),
                        newMVar, MVar(mvarId))
  /\ stats' = Bump("assigns")
  /\ res' = Ok(fvars, newMVar)
  /\ pc' = "unwind"
  /\ UNCHANGED <<synthCache, ngen, ctx, locals, saved, result, entry, registered, calls>>

\* closing that leaves the first introduced hypothesis free
MkLambdaAssignInnerBug ==
  /\ pc = "assign"
  /\ mctx' = AssignExpr(mctx, mvarId, MkLambda(ctxLCtx, SubSeq(fvars, 2, Len(fvars)), MVar(newMVar)))
  /\ stats' = Bump("assigns")
  /\ res' = Ok(fvars, newMVar)
  /\ pc' = "unwind"
  /\ UNCHANGED <<synthCache, ngen, ctx, locals, saved, result, entry, registered, calls>>

MkLambdaAssign ==
  /\ pc = "assign"
  /\ \E ok \in BOOLEAN :
       IF ~ok
       THEN /\ Fail("MkLambdaFailed")
            /\ UNCHANGED <<mctx, stats>>
       ELSE /\ mctx' = AssignExpr(mctx, mvarId, MkLambda(ctxLCtx, fvars, MVar(newMVar)))
            /\ stats' = Bump("assigns")
            /\ res' = Ok(fvars, newMVar)
            /\ pc' = "unwind"
  /\ UNCHANGED <<synthCache, ngen, ctx, locals, saved, result, entry, registered, calls>>

\* --------------------------------------------------- unwinding and return
\* a scope that puts the memo back but never pops its frame
RestoreBug ==
  /\ pc = "unwind"
  /\ saved # <<>>
  /\ synthCache' = saved[Len(saved)].cache
  /\ ctxInsts' = saved[Len(saved)].li
  /\ stats' = [stats EXCEPT !.restores = 1]
  /\ UNCHANGED <<mctx, ngen, ctx, pc, mvarId, n, lctx, fvars, j, names, type, ctxLCtx, i,
                 cont, saved, newMVar, res, result, entry, registered, calls>>

\* leaving one resettingSynthInstanceCache scope: the saved memo is put back
Restore ==
  /\ pc = "unwind"
  /\ saved # <<>>
  /\ synthCache' = saved[Len(saved)].cache
  /\ ctxInsts' = saved[Len(saved)].li
  /\ saved' = SubSeq(saved, 1, Len(saved) - 1)
  /\ stats' = Bump("restores")
  /\ UNCHANGED <<mctx, ngen, ctx, pc, mvarId, n, lctx, fvars, j, names, type, ctxLCtx, i,
                 cont, newMVar, res, result, entry, registered, calls>>

Return ==
  /\ pc = "unwind"
  /\ saved = <<>>
  /\ result' = IF res.kind # "ok" THEN res
                ELSE IF entry.api = "introN" THEN Ok(UmapFVarId(0, res.fvars), res.mvarId)
                ELSE Ok1(ArrayGet(UmapFVarId(0, res.fvars), 0), res.mvarId)
  /\ res' = NoResult
  /\ pc' = "idle"
  /\ mvarId' = UnknownId
  /\ n' = 0
  /\ lctx' = <<>>
  /\ fvars' = <<>>
  /\ j' = 0
  /\ names' = <<>>
  /\ type' = Nat0
  /\ ctxLCtx' = <<>>
  /\ ctxInsts' = <<>>
  /\ i' = 0
  /\ cont' = "none"
  /\ UNCHANGED <<mctx, synthCache, ngen, ctx, saved, newMVar, entry, stats, registered, calls>>

CallIntroN == \E g \in Goals, n0 \in 0..MaxN, given \in NameLists : IntroN(g, n0, given)
CallIntro == \E g \in Goals, name \in GivenNames : Intro(g, name)
CallIntro1 == \E g \in Goals : Intro1(g)

Next ==
  \/ CallIntroN
  \/ CallIntro
  \/ CallIntro1
  \/ CheckNotAssigned
  \/ GetMVarType
  \/ PeelForall
  \/ PeelLet
  \/ PeelOther
  \/ PeelDone
  \/ ClassifyEnd
  \/ ClassifyQuick
  \/ ClassifyExpensive
  \/ WhnfStep
  \/ MkFreshExprMVar
  \/ MkLambdaAssign
  \/ Restore
  \/ Return

Spec == Init /\ [][Next]_vars

\* the steps of a running call; the call is synchronous, so once entered it keeps
\* stepping until it returns
Step ==
  \/ CheckNotAssigned
  \/ GetMVarType
  \/ PeelForall
  \/ PeelLet
  \/ PeelOther
  \/ PeelDone
  \/ ClassifyEnd
  \/ ClassifyQuick
  \/ ClassifyExpensive
  \/ WhnfStep
  \/ MkFreshExprMVar
  \/ MkLambdaAssign
  \/ Restore
  \/ Return

\* a bounded number of calls, each run to its return
FairNext ==
  \/ calls < MaxFairCalls /\ CallIntroN
  \/ calls < MaxFairCalls /\ CallIntro
  \/ calls < MaxFairCalls /\ CallIntro1
  \/ Step

FairSpec == Init /\ [][FairNext]_vars /\ WF_vars(Step)

\* ---------------------------------------------------------------- properties
Returned == pc = "idle" /\ result.kind # "none"
ReturnedIntroN == Returned /\ entry.api = "introN"
EntryDeclared == entry.mvarId \in DOMAIN entry.mctx.decls
EntryDecl == entry.mctx.decls[entry.mvarId]
EntryOpen == EntryDeclared /\ ~IsAssigned(entry.mctx, entry.mvarId)
OracleFailures == {"IsClassQuickFailed", "IsClassExpensiveFailed", "WhnfFailed", "MkLambdaFailed"}
FVarIdsOf(lc) == {lc[p].fvarId : p \in 1..Len(lc)}

RECURSIVE SyntacticBinders(_)
SyntacticBinders(t) ==
  IF t.k \in {"forall", "let"} THEN 1 + SyntacticBinders(t.body) ELSE 0

\* binders available when whnf is applied whenever a non-binder is met
RECURSIVE AvailableBinders(_)
AvailableBinders(t) ==
  IF t.k \in {"forall", "let"} THEN 1 + AvailableBinders(t.body)
  ELSE IF Whnf(t).k \in {"forall", "let"} THEN AvailableBinders(Whnf(t)) ELSE 0

\* open the leading binders of t one at a time, outermost first
RECURSIVE OpenBinders(_, _)
OpenBinders(t, xs) ==
  IF xs = <<>> THEN t
  ELSE OpenBinders(Inst(t.body, 0, 0, 1, <<Head(xs)>>), Tail(xs))

AsFVars(ids) == [p \in 1..Len(ids) |-> FVar(ids[p])]

\* where an oracle, or the caller, may read the memo
LocalInstancesInForce == IF pc = "idle" THEN ctx.localInstances ELSE ctxInsts
OracleQueryPoint ==
  \/ pc \in {"expensive", "whnf", "close", "assign"}
  \/ pc = "classify" /\ i < Len(fvars)

\* C1: with at least n syntactic leading binders and an unassigned goal, introN
\* succeeds (unless an external classifier or mkLambda reports an error), returns
\* n pairwise distinct FVarIds that are new to the goal's context, in binder
\* order, and the new goal's type is the body under the n binders with the i-th
\* bound variable replaced by the i-th returned free variable.
C1_PeelSyntactic ==
  (ReturnedIntroN /\ EntryOpen /\ SyntacticBinders(EntryDecl.type) >= entry.n) =>
    /\ result.kind = "error" => result.err \in OracleFailures \ {"WhnfFailed"}
    /\ result.kind = "ok" =>
         LET ids == result.fvars
             new == mctx.decls[result.mvarId]
             old == EntryDecl.lctx
         IN  /\ Len(ids) = entry.n
             /\ \A p, q \in 1..Len(ids) : p # q => ids[p] # ids[q]
             /\ \A p \in 1..Len(ids) : ids[p] \notin FVarIdsOf(old)
             /\ Len(new.lctx) = Len(old) + Len(ids)
             /\ \A p \in 1..Len(ids) :
                  LET d == new.lctx[Len(old) + p]
                      b == OpenBinders(EntryDecl.type, SubSeq(AsFVars(ids), 1, p - 1))
                  IN  /\ d.fvarId = ids[p]
                      /\ d.type = IF b.k = "forall" THEN b.dom ELSE b.type
             /\ new.type = OpenBinders(EntryDecl.type, AsFVars(ids))

C1_Witness ==
  /\ ReturnedIntroN
  /\ result.kind = "ok"
  /\ entry.n = 3
  /\ EntryDecl.type = TExample
  /\ mctx.decls[result.mvarId].type = Const("True")
  /\ Len(result.fvars) = 3

\* C2: every successful introN(goal, n) returns exactly n FVarIds, also when
\* binders only become visible after whnf.
C2_LengthIsN == (ReturnedIntroN /\ result.kind = "ok") => Len(result.fvars) = entry.n

\* C3: on an already-assigned goal introN fails with AlreadyAssigned for every n,
\* and the assignment check runs before any FVarId is minted, any hypothesis is
\* added or any metavariable is created.
C3_AlreadyAssigned ==
  /\ (Returned /\ EntryDeclared /\ IsAssigned(entry.mctx, entry.mvarId)) =>
       /\ result = Error("AlreadyAssigned")
       /\ mctx = entry.mctx
       /\ ngen = entry.ngen
       /\ stats.minted = 0 /\ stats.mvars = 0 /\ stats.checks = 1
  /\ pc = "checkNotAssigned" =>
       /\ stats.checks = 0 /\ stats.minted = 0 /\ stats.mvars = 0
       /\ ngen = entry.ngen /\ mctx = entry.mctx /\ ctxLCtx = EntryDecl.lctx
  /\ (stats.minted > 0 \/ stats.mvars > 0) => stats.checks = 1

C3_Witness ==
  /\ ReturnedIntroN
  /\ result = Error("AlreadyAssigned")
  /\ entry.n = 0
  /\ stats.checks = 1

\* C4: introN fails with InsufficientBinders whenever the type supplies fewer
\* than n binders after exhaustive whnf, and then the MetavariableContext is the
\* one passed in.
C4_InsufficientBinders ==
  (ReturnedIntroN /\ EntryOpen /\ AvailableBinders(EntryDecl.type) < entry.n) =>
    /\ result.kind = "error"
    /\ result.err \in OracleFailures \/ (result.err = "InsufficientBinders" /\ mctx = entry.mctx)

\* C5: an assignment, once set, never changes; a successful call assigns the
\* original goal exactly once, after the new goal exists, and nothing else.
C5_AssignOnce ==
  /\ [][\A m \in DOMAIN mctx.eAssignment :
          m \in DOMAIN mctx'.eAssignment /\ mctx'.eAssignment[m] = mctx.eAssignment[m]]_vars
  /\ []((Returned /\ result.kind = "ok") =>
          /\ stats.assigns = 1
          /\ DOMAIN mctx.eAssignment = DOMAIN entry.mctx.eAssignment \cup {entry.mvarId}
          /\ entry.mvarId \notin DOMAIN entry.mctx.eAssignment)
  /\ [](stats.assigns <= 1)
  /\ []((pc # "idle" /\ stats.assigns = 1) =>
          /\ pc = "unwind"
          /\ newMVar \in DOMAIN mctx.decls
          /\ mctx.eAssignment[mvarId] = MkLambda(ctxLCtx, fvars, MVar(newMVar)))
  /\ []((pc # "idle" /\ stats.assigns = 0) => mctx.eAssignment = entry.mctx.eAssignment)

C5_Witness ==
  /\ Returned
  /\ result.kind = "ok"
  /\ entry.api = "intro1"
  /\ stats.assigns = 1
  /\ Cardinality(DOMAIN mctx.eAssignment) = 3

\* C6: on every error return the state handed back equals the state passed in
\* (metavariable context, fresh-identifier generator, and the instance cache
\* when no memoising oracle ran).
C6_ErrorLeavesState ==
  (Returned /\ result.kind = "error") =>
    /\ mctx = entry.mctx
    /\ ngen = entry.ngen
    /\ (stats.whnf = 0 /\ stats.expensive = 0) => synthCache = entry.synthCache

\* C7: once a hypothesis is registered as a local instance, every later oracle
\* query of the call sees it in localInstances and reads a memo that was reset
\* after the registration.
C7_InstanceVisible ==
  OracleQueryPoint =>
    \A r \in 1..Len(registered) :
      /\ \E p \in 1..Len(ctxInsts) : ctxInsts[p] = registered[r]
      /\ \A tag \in synthCache : \E p \in 1..Len(tag) : tag[p] = registered[r]
      /\ Len(saved) >= Len(registered) - r + 1

C7_Witness ==
  /\ pc = "whnf"
  /\ Len(registered) = 1
  /\ Len(ctxInsts) = 2
  /\ entry.synthCache # {}
  /\ synthCache = {}

\* C8: wherever an oracle may read the memo, and when the call returns, no memo
\* entry was computed under a localInstances array other than the one in force.
C8_MemoCoherent ==
  pc # "unwind" => \A tag \in synthCache : tag = LocalInstancesInForce

C8_Witness ==
  /\ pc = "close"
  /\ Len(registered) = 1
  /\ synthCache = {ctxInsts}
  /\ Len(saved) = 2

\* C9: the guard leaves the memo alone when the caller's and the goal's
\* local-instance arrays have the same length and are pairwise equal, and in
\* every other case empties it before the assignment check.
C9_Guard ==
  pc = "checkNotAssigned" =>
    LET a == ctx.localInstances
        b == mctx.decls[mvarId].localInstances
        same == Len(a) = Len(b) /\ \A p \in 1..Len(a) : a[p] = b[p]
    IN  /\ stats.checks = 0
        /\ ctxInsts = b
        /\ same => (synthCache = entry.synthCache /\ saved = <<>> /\ stats.resets = 0)
        /\ ~same =>
             /\ synthCache = {}
             /\ stats.resets = 1
             /\ saved = <<[cache |-> entry.synthCache, li |-> a]>>

C9_Witness ==
  /\ pc = "checkNotAssigned"
  /\ Len(ctx.localInstances) = Len(ctxInsts)
  /\ ctx.localInstances # ctxInsts
  /\ synthCache = {}
  /\ entry.synthCache # {}

\* C10: introN(goal, 0) on an unassigned goal returns no FVarId and a new goal
\* with the type, local context and tag of the original; it performs the
\* assignment check, mints no FVarId and calls neither whnf nor a classifier.
C10_ZeroIsNoOp ==
  (ReturnedIntroN /\ EntryOpen /\ entry.n = 0) =>
    /\ result.kind = "error" => result.err = "MkLambdaFailed"
    /\ stats.checks = 1 /\ stats.minted = 0
    /\ stats.whnf = 0 /\ stats.quick = 0 /\ stats.expensive = 0
    /\ result.kind = "ok" =>
         /\ result.fvars = <<>>
         /\ result.mvarId \notin DOMAIN entry.mctx.decls
         /\ mctx.decls[result.mvarId].type = EntryDecl.type
         /\ mctx.decls[result.mvarId].lctx = EntryDecl.lctx
         /\ mctx.decls[result.mvarId].tag = EntryDecl.tag

C10_Witness ==
  /\ ReturnedIntroN
  /\ result.kind = "ok"
  /\ entry.n = 0
  /\ result.fvars = <<>>
  /\ EntryDecl.type = TExample
  /\ mctx.decls[result.mvarId].type = TExample

\* the type left after the binders named by xs have been opened one at a time,
\* reducing with whnf wherever the type at hand is not a binder
RECURSIVE ResidualOf(_, _)
ResidualOf(t, xs) ==
  IF xs = <<>> THEN t
  ELSE IF t.k \in {"forall", "let"}
       THEN ResidualOf(Inst(t.body, 0, 0, 1, <<Head(xs)>>), Tail(xs))
       ELSE IF IsForall(Whnf(t)) THEN ResidualOf(Whnf(t), xs) ELSE t

NewGoal == mctx.decls[result.mvarId]

\* C11: after a successful introN the new goal is a metavariable other than the
\* original goal, not declared before the call, unassigned, whose type is the
\* residual goal type, whose local context is the original goal's context
\* followed by exactly the introduced declarations, and whose tag is the
\* original goal's tag.  The residual goal type is the type left once the
\* returned hypotheses' binders have been opened; it is not reduced further.
C11_NewGoal ==
  (ReturnedIntroN /\ result.kind = "ok") =>
    LET ids == result.fvars
        old == EntryDecl.lctx
    IN  /\ result.mvarId # entry.mvarId
        /\ result.mvarId \notin DOMAIN entry.mctx.decls
        /\ result.mvarId \in DOMAIN mctx.decls
        /\ result.mvarId \notin DOMAIN mctx.eAssignment
        /\ NewGoal.type = ResidualOf(EntryDecl.type, AsFVars(ids))
        /\ Len(NewGoal.lctx) = Len(old) + Len(ids)
        /\ SubSeq(NewGoal.lctx, 1, Len(old)) = old
        /\ \A p \in 1..Len(ids) : NewGoal.lctx[Len(old) + p].fvarId = ids[p]
        /\ NewGoal.tag = EntryDecl.tag

\* e is g wrapped in one binder per declaration of ds, outermost first: a lambda
\* over the type of a Forall-hypothesis, a let over the type and value of a
\* Let-hypothesis, each binding the declaration's free variable
RECURSIVE ClosedOver(_, _, _)
ClosedOver(e, ds, g) ==
  IF ds = <<>> THEN e = MVar(g)
  ELSE LET d == Head(ds) IN
       /\ d.k = "cdecl" => (e.k = "lam" /\ e.dom = d.type)
       /\ d.k = "ldecl" => (e.k = "let" /\ e.type = d.type /\ e.val = d.val)
       /\ e.k \in {"lam", "let"}
       /\ ClosedOver(Inst(e.body, 0, 0, 1, <<FVar(d.fvarId)>>), Tail(ds), g)

\* the declarations a successful call appended to the goal's context
Introduced == SubSeq(NewGoal.lctx, Len(EntryDecl.lctx) + 1, Len(NewGoal.lctx))

\* C12: after a successful introN the original goal is assigned to the new
\* goal's metavariable wrapped in binders that close exactly the returned
\* FVarIds, the first introduced hypothesis outermost, a lambda for each
\* Forall-hypothesis and a let for each Let-hypothesis.
C12_Assignment ==
  (ReturnedIntroN /\ result.kind = "ok") =>
    /\ entry.mvarId \in DOMAIN mctx.eAssignment
    /\ [p \in 1..Len(Introduced) |-> Introduced[p].fvarId] = result.fvars
    /\ ClosedOver(mctx.eAssignment[entry.mvarId], Introduced, result.mvarId)
    /\ FVarsOf(mctx.eAssignment[entry.mvarId]) \cap {result.fvars[p] : p \in 1..Len(result.fvars)} = {}

C12_Witness ==
  /\ ReturnedIntroN
  /\ result.kind = "ok"
  /\ EntryDecl.type = TInst
  /\ Len(result.fvars) = 2
  /\ mctx.eAssignment[entry.mvarId].k = "lam"
  /\ mctx.eAssignment[entry.mvarId].body.k = "let"
  /\ mctx.eAssignment[entry.mvarId].body.val = App(Const("one"), BVar(0))

\* a term with binder names and binder data erased (equality up to renaming)
RECURSIVE Erase(_)
Erase(e) ==
  CASE e.k = "app" -> App(Erase(e.f), Erase(e.a))
    [] e.k = "forall" -> Forall(Name("_"), DataDefault, Erase(e.dom), Erase(e.body))
    [] e.k = "lam" -> Lam(Name("_"), 0, Erase(e.dom), Erase(e.body))
    [] e.k = "let" -> LetE(Name("_"), Erase(e.type), Erase(e.val), Erase(e.body))
    [] OTHER -> e

\* abstract the declarations ds[1..m] over ty, the last one innermost: a Forall
\* for a hypothesis without value, a Let for one with a value
RECURSIVE Rebuild(_, _, _)
Rebuild(ty, ds, m) ==
  IF m = 0 THEN ty
  ELSE LET d == ds[m]
           b == AbstractFVar(ty, d.fvarId, 0)
       IN  Rebuild(IF d.k = "cdecl" THEN Forall(d.userName, DataDefault, d.type, b)
                   ELSE LetE(d.userName, d.type, d.val, b),
                   ds, m - 1)

\* C13: for a goal whose type has at least n leading Forall/Let binders,
\* abstracting the introduced free variables, in order and with the types and
\* values of their declarations, over the new goal's type rebuilds the original
\* goal's type (up to binder names and binder annotations).
C13_RoundTrip ==
  (ReturnedIntroN /\ result.kind = "ok" /\ SyntacticBinders(EntryDecl.type) >= entry.n) =>
    /\ Len(Introduced) = entry.n
    /\ Erase(Rebuild(NewGoal.type, Introduced, Len(Introduced))) = Erase(EntryDecl.type)

C13_Witness ==
  /\ ReturnedIntroN
  /\ result.kind = "ok"
  /\ EntryDecl.type = TInst
  /\ entry.n = 2
  /\ Introduced[2].k = "ldecl"
  /\ Introduced[2].val = App(Const("one"), FVar(result.fvars[1]))
  /\ NewGoal.type = App(App(Const("P"), FVar(result.fvars[2])), FVar(result.fvars[1]))

\* the first binder the call meets: of the goal's type, or of its whnf
FirstBinder == IF EntryDecl.type.k \in {"forall", "let"} THEN EntryDecl.type ELSE Whnf(EntryDecl.type)

\* C14: intro(goal, name) is introN(goal, 1, [name]); on success it returns that
\* call's new goal together with the FVarId of the one hypothesis introduced,
\* which is the declaration the call appended to the new goal's context.
C14_Intro ==
  (Returned /\ entry.api = "intro") =>
    /\ entry.n = 1
    /\ Len(entry.names) = 1
    /\ result.kind = "ok" =>
         /\ result.mvarId \in DOMAIN mctx.decls \ DOMAIN entry.mctx.decls
         /\ Len(Introduced) = 1
         /\ result.fvar = Introduced[1].fvarId
         /\ Introduced[1].userName =
              IF entry.names[1] = Placeholder
              THEN GetUnusedName(EntryDecl.lctx, FirstBinder.name)
              ELSE entry.names[1]

\* C15: intro1(goal) is introN(goal, 1) with no names; on success it returns that
\* call's new goal together with the FVarId of the one hypothesis introduced,
\* whose user name is the unused-name oracle's answer for the binder's name in
\* the goal's context.
C15_Intro1 ==
  (Returned /\ entry.api = "intro1") =>
    /\ entry.n = 1
    /\ entry.names = <<>>
    /\ result.kind = "ok" =>
         /\ result.mvarId \in DOMAIN mctx.decls \ DOMAIN entry.mctx.decls
         /\ Len(Introduced) = 1
         /\ result.fvar = Introduced[1].fvarId
         /\ Introduced[1].userName = GetUnusedName(EntryDecl.lctx, FirstBinder.name)

\* a step that peels one binder
PeelsBinder == pc = "peel" /\ Len(fvars') = Len(fvars) + 1

\* C16: for each peeled binder for which a name is supplied, the hypothesis gets
\* exactly the supplied name when it is not the placeholder `_` (the unused-name
\* oracle is not consulted, so the name may already be in use), and
\* getUnusedName(current context, binder name) when it is the placeholder.
C16_SuppliedName ==
  [][(PeelsBinder /\ names # <<>>) =>
       LET d == lctx'[Len(lctx')] IN
       /\ Len(lctx') = Len(lctx) + 1
       /\ d.fvarId = fvars'[Len(fvars')].id
       /\ d.userName = IF Head(names) = Placeholder
                       THEN GetUnusedName(lctx, type.name)
                       ELSE Head(names)]_vars

C16_Witness ==
  /\ pc = "peel"
  /\ entry.names = <<Placeholder, Name("a")>>
  /\ Len(fvars) = 2
  /\ Len(lctx) = 3
  /\ lctx[1].userName = Name("a")
  /\ lctx[2].userName = GetUnusedName(HypLCtx, Name("a"))
  /\ lctx[2].userName # Name("a")
  /\ lctx[3].userName = Name("a")

\* C17 as stated: introN does not complete successfully when it is given a
\* non-empty name list whose length differs from n.
C17_LengthEnforced ==
  (ReturnedIntroN /\ entry.names # <<>> /\ Len(entry.names) # entry.n) => result.kind # "ok"

\* C17, amended: the length of the name list is not checked.  Given a non-empty
\* list whose length differs from n and a goal with at least n syntactic
\* binders, introN succeeds (unless an oracle fails) and introduces n
\* hypotheses: those within the list take its entries (the placeholder meaning
\* an unused name), those beyond its end get a name unused in the context
\* accumulated so far, and surplus entries are ignored.
C17_LengthNotChecked ==
  (ReturnedIntroN /\ EntryOpen /\ entry.names # <<>> /\ Len(entry.names) # entry.n
     /\ SyntacticBinders(EntryDecl.type) >= entry.n) =>
    /\ result.kind = "error" => result.err \in OracleFailures \ {"WhnfFailed"}
    /\ result.kind = "ok" =>
         /\ Len(Introduced) = entry.n
         /\ \A p \in 1..Len(Introduced) :
              LET before == SubSeq(NewGoal.lctx, 1, Len(EntryDecl.lctx) + p - 1)
                  given == IF p <= Len(entry.names) THEN entry.names[p] ELSE Placeholder
              IN  IF given # Placeholder
                  THEN Introduced[p].userName = given
                  ELSE Introduced[p].userName \notin UsedNames(before)

C17_Witness ==
  /\ ReturnedIntroN
  /\ result.kind = "ok"
  /\ Len(entry.names) = 2
  /\ entry.n = 3
  /\ EntryDecl.type = TExample
  /\ Len(Introduced) = 3
  /\ Introduced[2].userName = Name("a")
  /\ Introduced[3].userName \notin {Name("a"), Placeholder}

\* C18: every auto-generated hypothesis name is the unused-name oracle's answer
\* for the binder's name against the context accumulated so far in the call (the
\* goal's context followed by the hypotheses already introduced), so it differs
\* from every name in that context, also from those introduced earlier in the
\* same call.
C18_AutoName ==
  [][(PeelsBinder /\ (names = <<>> \/ Head(names) = Placeholder)) =>
       LET old == mctx.decls[mvarId].lctx
           d == lctx'[Len(lctx')]
       IN  /\ Len(lctx) = Len(old) + Len(fvars)
           /\ SubSeq(lctx, 1, Len(old)) = old
           /\ \A p \in 1..Len(fvars) : lctx[Len(old) + p].fvarId = fvars[p].id
           /\ d.userName = GetUnusedName(lctx, type.name)
           /\ d.userName \notin UsedNames(lctx)]_vars

C18_Witness ==
  /\ pc = "peel"
  /\ entry.names = <<>>
  /\ mctx.decls[mvarId].type = TUnk
  /\ Len(fvars) = 2
  /\ lctx[Len(lctx) - 1].userName = Name("u")
  /\ lctx[Len(lctx)].userName # Name("u")
  /\ lctx[Len(lctx)].userName = GetUnusedName(SubSeq(lctx, 1, Len(lctx) - 1), Name("u"))

\* control points at which the accumulated context of the running call is live
Peeling == pc \in {"peel", "classify", "expensive", "whnf", "close", "assign"}

IsPrefix(a, b) == Len(a) <= Len(b) /\ \A p \in 1..Len(a) : b[p] = a[p]

\* C19: introN does not change the local context of the original goal's
\* declaration; the accumulated context only ever grows by appending one
\* declaration at its end, so no pre-existing declaration is removed, reordered
\* or altered; the context of the new goal is the original goal's context
\* followed by the introduced declarations in introduction order.
C19_ContextFrame ==
  /\ [](pc # "idle" =>
          /\ mctx.decls[mvarId].lctx = entry.mctx.decls[mvarId].lctx
          /\ Peeling =>
               /\ IsPrefix(EntryDecl.lctx, lctx)
               /\ Len(lctx) = Len(EntryDecl.lctx) + Len(fvars)
               /\ \A p \in 1..Len(fvars) : lctx[Len(EntryDecl.lctx) + p].fvarId = fvars[p].id)
  /\ [][(Peeling /\ pc' # "idle") =>
          \/ lctx' = lctx
          \/ Len(lctx') = Len(lctx) + 1 /\ IsPrefix(lctx, lctx')]_vars
  /\ [](Returned => \A m \in DOMAIN entry.mctx.decls : mctx.decls[m].lctx = entry.mctx.decls[m].lctx)
  /\ []((ReturnedIntroN /\ result.kind = "ok") =>
          /\ IsPrefix(EntryDecl.lctx, NewGoal.lctx)
          /\ [p \in 1..Len(Introduced) |-> Introduced[p].fvarId] = result.fvars)

C19_Witness ==
  /\ ReturnedIntroN
  /\ result.kind = "ok"
  /\ EntryDecl.lctx = HypLCtx
  /\ mctx.decls[entry.mvarId].lctx = HypLCtx
  /\ Len(result.fvars) = 3
  /\ NewGoal.lctx[1] = HypLCtx[1]
  /\ Len(NewGoal.lctx) = 4

\* no two declarations share an FVarId, and the type and the value of each
\* declaration mention only FVarIds of declarations before it
WellFormedLCtx(lc) ==
  /\ \A p, q \in 1..Len(lc) : p # q => lc[p].fvarId # lc[q].fvarId
  /\ \A p \in 1..Len(lc) :
       LET earlier == {lc[q].fvarId : q \in 1..(p - 1)} IN
       /\ FVarsOf(lc[p].type) \subseteq earlier
       /\ lc[p].k = "ldecl" => FVarsOf(lc[p].val) \subseteq earlier

\* C20: every local context reachable by threaded introN / intro / intro1 calls
\* from well-formed contexts is well formed: the context of every declared
\* metavariable, the context accumulated by a running call and the context in
\* force for its oracles.
C20_WellFormed ==
  /\ \A m \in DOMAIN mctx.decls : WellFormedLCtx(mctx.decls[m].lctx)
  /\ WellFormedLCtx(lctx)
  /\ WellFormedLCtx(ctxLCtx)

C20_Witness ==
  /\ Returned
  /\ result.kind = "ok"
  /\ calls = 2
  /\ entry.api = "intro"
  /\ EntryDecl.type.k = "forall"
  /\ Len(EntryDecl.lctx) = 2
  /\ Len(NewGoal.lctx) = 3
  /\ FVarsOf(NewGoal.lctx[3].type) = {NewGoal.lctx[1].fvarId, NewGoal.lctx[2].fvarId}
  /\ WellFormedLCtx(NewGoal.lctx)

\* C21: a successful call on goal g changes the MetavariableContext only by the
\* assignment of g and the declaration of the new goal: every declaration
\* present before the call, that of g included, and every assignment present
\* before the call are the same afterwards.
C21_MctxFrame ==
  (Returned /\ result.kind = "ok") =>
    /\ DOMAIN mctx.decls = DOMAIN entry.mctx.decls \cup {result.mvarId}
    /\ result.mvarId \notin DOMAIN entry.mctx.decls
    /\ \A m \in DOMAIN entry.mctx.decls : mctx.decls[m] = entry.mctx.decls[m]
    /\ DOMAIN mctx.eAssignment = DOMAIN entry.mctx.eAssignment \cup {entry.mvarId}
    /\ entry.mvarId \notin DOMAIN entry.mctx.eAssignment
    /\ \A m \in DOMAIN entry.mctx.eAssignment : mctx.eAssignment[m] = entry.mctx.eAssignment[m]

C21_Witness ==
  /\ ReturnedIntroN
  /\ result.kind = "ok"
  /\ entry.mvarId \notin {GoalId, SolvedId}
  /\ GoalId \in DOMAIN entry.mctx.eAssignment
  /\ Cardinality(DOMAIN mctx.decls) = 4
  /\ Cardinality(DOMAIN mctx.eAssignment) = 3
  /\ Len(result.fvars) = 1

\* an upper bound on the number of steps the running call still takes; it is
\* computed from the remaining count, the hypotheses still to classify and the
\* open cache scopes only, never from the type at hand
WhnfCost(count) == 4 * count + 5
ContCost == IF cont = "close" THEN 2 ELSE WhnfCost(n)
Rank ==
  IF pc = "idle" THEN 0 ELSE
  Len(saved) + 1 +
  CASE pc = "checkNotAssigned" -> 4 * n + 6
    [] pc = "getMVarType" -> 4 * n + 5
    [] pc = "peel" -> 3 * (Len(fvars) - j) + 4 * n + 4
    [] pc = "classify" -> 3 * (Len(fvars) - i) + 1 + ContCost
    [] pc = "expensive" -> 3 * (Len(fvars) - i) + ContCost
    [] pc = "whnf" -> WhnfCost(n)
    [] pc = "close" -> 2
    [] pc = "assign" -> 1
    [] OTHER -> 0

\* C22: every call of introN, intro and intro1 terminates with a result or an
\* error: a running call can always take a step, each step strictly lowers a
\* non-negative bound that does not depend on the type or on what whnf returns,
\* and a call that keeps stepping returns.
C22_Terminates ==
  /\ [](pc # "idle" => (ENABLED Step /\ Rank > 0 /\ j <= Len(fvars) /\ i <= Len(fvars)))
  /\ [][pc # "idle" => Rank' < Rank]_vars
  /\ [](pc = "unwind" => res.kind \in {"ok", "error"})
  /\ (pc # "idle") ~> (pc = "idle" /\ result.kind \in {"ok", "error"})

C22_Witness ==
  /\ pc = "peel"
  /\ type = Whnf(Const("D"))
  /\ stats.whnf = 1
  /\ n = 2
  /\ entry.n = 3

\* C23: when a type that is neither Forall nor Let is met with remaining count
\* n > 0 and whnf reduces it to a Forall, peeling resumes with the same count
\* n: neither taking the whnf branch, nor classifying the new hypotheses on
\* the way to whnf, nor the whnf step itself changes the remaining count.
C23_WhnfKeepsCount ==
  [][(\/ pc = "peel" /\ n > 0 /\ type.k \notin {"forall", "let"}
      \/ pc \in {"classify", "expensive", "whnf"} /\ cont = "whnf")
     => n' = n]_vars

\* the answer of the two classifiers taken together, as the classification
\* loop combines them
ClassOf(ty) ==
  LET q == IsClassQuick(ty) IN IF q[1] = "Unknown" THEN IsClassExpensive(ty) ELSE q
InstanceHyp(k) == ClassOf(lctx[FindDecl(lctx, fvars[k].id)].type)[1] = "IsClass"
InLocalInstances(k) == \E p \in 1..Len(ctxInsts) : ctxInsts[p].fvar = fvars[k]

\* C24 (as stated): whenever the next binder is peeled and its domain
\* instantiated, every instance hypothesis introduced before it in this call
\* is already in localInstances.
C24_RegisteredBeforeBody ==
  [][PeelsBinder => \A k \in 1..Len(fvars) : InstanceHyp(k) => InLocalInstances(k)]_vars

\* C24 (amended): peeling a syntactic binder never touches localInstances; an
\* instance hypothesis is in localInstances when peeling has stopped and the
\* continuation (whnf or goal creation) runs, and the hypotheses introduced
\* before the last whnf step are in localInstances while peeling goes on.
C24_RegisteredBeforeContinuation ==
  /\ [][PeelsBinder => ctxInsts' = ctxInsts]_vars
  /\ [](pc \in {"whnf", "close"} =>
          \A k \in 1..Len(fvars) : InstanceHyp(k) => InLocalInstances(k))
  /\ [](pc = "peel" => \A k \in 1..j : InstanceHyp(k) => InLocalInstances(k))

C24_Witness ==
  /\ pc = "close"
  /\ j = 0
  /\ Len(fvars) = 2
  /\ InstanceHyp(1)
  /\ InLocalInstances(1)
  /\ Len(registered) = 1

\* the hypothesis the classification loop is looking at, and isClassQuick's answer
QuickAnswer == IsClassQuick(DeclType(fvars[i + 1]))[1]

\* C25: isClassExpensive is asked only about a hypothesis for which
\* isClassQuick has just answered Unknown: the expensive query is reached only
\* from a quick query on the same hypothesis, never after a NotClass or
\* IsClass answer, and isClassExpensive is asked nowhere else.
C25_ExpensiveOnlyAfterUnknown ==
  /\ [](pc = "expensive" => (i < Len(fvars) /\ QuickAnswer = "Unknown"))
  /\ [][(pc # "idle" /\ stats'.expensive # stats.expensive) =>
          (pc = "expensive" /\ stats'.expensive = stats.expensive + 1
                            /\ stats'.quick = stats.quick)]_vars
  /\ [][(pc # "expensive" /\ pc' = "expensive") =>
          (pc = "classify" /\ i' = i /\ stats'.quick = stats.quick + 1)]_vars
  /\ [][(pc = "classify" /\ i < Len(fvars) /\ QuickAnswer # "Unknown") =>
          (pc' # "expensive" /\ stats'.expensive = stats.expensive)]_vars
  /\ [](pc \in {"classify", "expensive", "whnf", "close", "assign"} =>
          stats.expensive <= stats.quick)

C25_Witness ==
  /\ pc = "expensive"
  /\ i = 1
  /\ stats.quick = 2
  /\ stats.expensive = 1
  /\ Len(registered) = 1

ExpensiveAnswer == IsClassExpensive(DeclType(fvars[i + 1]))

\* the state right after hypothesis i + 1 was registered under className
RegisteredAs(className) ==
  /\ ctxInsts' = Append(ctxInsts, [className |-> className, fvar |-> fvars[i + 1]])
  /\ synthCache' = {}
  /\ i' = i + 1
  /\ pc' = "classify"
  /\ fvars' = fvars

\* C26: a classification step whose answer is IsClass(className), from
\* isClassQuick or from isClassExpensive, appends (className, the hypothesis's
\* free variable) at the end of localInstances and leaves synthInstanceCache
\* empty, in the same step: the next hypothesis is classified, and the
\* continuation runs, only from the state so updated.
C26_Registers ==
  /\ [][(pc = "classify" /\ i < Len(fvars) /\ QuickAnswer = "IsClass" /\ pc' # "unwind") =>
          RegisteredAs(IsClassQuick(DeclType(fvars[i + 1]))[2])]_vars
  /\ [][(pc = "expensive" /\ ExpensiveAnswer[1] = "IsClass" /\ pc' # "unwind") =>
          RegisteredAs(ExpensiveAnswer[2])]_vars

C26_Witness ==
  /\ pc = "classify"
  /\ i = 1
  /\ Len(fvars) = 2
  /\ Len(registered) = 1
  /\ registered[1].className = "Group"
  /\ Len(ctxInsts) = 2
  /\ ctxInsts[2] = [className |-> "Group", fvar |-> fvars[1]]
  /\ synthCache = {}
  /\ saved[Len(saved)].cache # {}

\* the original wording of C27: a classification step whose answer is NotClass
\* leaves localInstances and the memo exactly as they were, whichever oracle
\* gave the answer
C27_NotClassExact ==
  /\ [][(pc = "classify" /\ i < Len(fvars) /\ QuickAnswer = "NotClass" /\ pc' # "unwind") =>
          (ctxInsts' = ctxInsts /\ synthCache' = synthCache)]_vars
  /\ [][(pc = "expensive" /\ ExpensiveAnswer[1] = "NotClass" /\ pc' # "unwind") =>
          (ctxInsts' = ctxInsts /\ synthCache' = synthCache)]_vars

\* C27: a classification step whose answer is NotClass (from isClassQuick, or
\* from isClassExpensive after Unknown) moves on to the next hypothesis with
\* localInstances as they were, no scope opened, nothing registered and the
\* memo not reset: after isClassQuick the memo is the same; after
\* isClassExpensive it is the memo that oracle handed back, which holds every
\* entry it held before and at most one more, made under the instances in force.
C27_NotClassFrame ==
  /\ [][(pc = "classify" /\ i < Len(fvars) /\ QuickAnswer = "NotClass" /\ pc' # "unwind") =>
          /\ ctxInsts' = ctxInsts
          /\ synthCache' = synthCache
          /\ saved' = saved
          /\ registered' = registered
          /\ i' = i + 1
          /\ pc' = "classify"]_vars
  /\ [][(pc = "expensive" /\ ExpensiveAnswer[1] = "NotClass" /\ pc' # "unwind") =>
          /\ ctxInsts' = ctxInsts
          /\ synthCache \subseteq synthCache'
          /\ synthCache' \subseteq synthCache \cup {ctxInsts}
          /\ saved' = saved
          /\ registered' = registered
          /\ i' = i + 1
          /\ pc' = "classify"]_vars

\* isClassExpensive has just answered NotClass for the first hypothesis of a
\* call whose guard did not reset: the memo the call entered with, made under
\* the instances in force, is not empty and every entry of it is still there
C27_Witness ==
  /\ pc = "classify"
  /\ i = 1
  /\ Len(fvars) = 1
  /\ stats.quick = 1
  /\ stats.expensive = 1
  /\ stats.resets = 0
  /\ registered = <<>>
  /\ ctxInsts # <<>>
  /\ entry.synthCache = {ctxInsts}
  /\ synthCache = entry.synthCache

OnTheWayTo(k) == pc \in {"classify", "expensive", k} /\ cont = k

\* C28: the whnf branch is taken only from a remaining count > 0 on a type
\* that is neither Forall nor Let, and whnf is called nowhere else; at count 0
\* the loop stops in that step, without peeling and without whnf, the residual
\* type being the remaining type instantiated with the free variables, and
\* that type, unreduced, is the type of the new goal.
C28_WhnfOnlyWhenNeeded ==
  /\ [][(pc = "peel" /\ pc' = "classify" /\ cont' = "whnf") =>
          (n > 0 /\ type.k \notin {"forall", "let"})]_vars
  /\ [](OnTheWayTo("whnf") => type.k \notin {"forall", "let"})
  /\ [][(pc # "idle" /\ stats'.whnf # stats.whnf) =>
          (pc = "whnf" /\ cont = "whnf" /\ stats'.whnf = stats.whnf + 1)]_vars
  /\ [][(pc = "peel" /\ n = 0) =>
          /\ pc' = "classify"
          /\ cont' = "close"
          /\ type' = InstantiateRevRange(type, j, Len(fvars), fvars)
          /\ fvars' = fvars
          /\ lctx' = lctx
          /\ stats' = stats]_vars
  /\ [][(OnTheWayTo("close") \/ pc = "assign") =>
          (type' = type \/ pc' = "idle") /\ stats'.whnf = stats.whnf]_vars
  /\ [](pc = "assign" => mctx.decls[newMVar].type = type)

C28_Witness ==
  /\ pc = "assign"
  /\ Len(fvars) = 1
  /\ type = App(Const("E"), fvars[1])
  /\ Whnf(type) # type
  /\ stats.whnf = 0
  /\ mctx.decls[newMVar].type = type

Reduced == Whnf(InstantiateRevRange(type, j, Len(fvars), fvars))
Raises(e) == res'.kind = "error" /\ res'.err = e /\ pc' = "unwind"

\* C29: InsufficientBinders is raised by the whnf step and by no other step;
\* the whnf step is reached only from a count > 0 on a type that is neither
\* Forall nor Let; when whnf answers, the step raises the error exactly if the
\* reduced type is not a Forall (a Let included), and then nothing is peeled
\* and whnf is not called again before the call returns.
C29_InsufficientBinders ==
  /\ [][(pc # "idle" /\ res' # res /\ res'.kind = "error"
           /\ res'.err = "InsufficientBinders") =>
          (pc = "whnf" /\ type.k \notin {"forall", "let"} /\ ~IsForall(Reduced))]_vars
  /\ [][(pc = "whnf" /\ ~IsForall(Reduced)) =>
          (Raises("InsufficientBinders") \/ Raises("WhnfFailed"))]_vars
  /\ [][(pc = "whnf" /\ IsForall(Reduced)) =>
          (Raises("WhnfFailed") \/ (pc' = "peel" /\ res' = res /\ type' = Reduced))]_vars
  /\ [][(pc = "peel" /\ pc' = "classify" /\ cont' = "whnf") => n > 0]_vars
  /\ [][pc = "unwind" =>
          (pc' \in {"unwind", "idle"} /\ stats'.whnf = stats.whnf
             /\ stats'.minted = stats.minted)]_vars

C29_Witness ==
  /\ pc = "unwind"
  /\ res = InsufficientBindersEx(mvarId)
  /\ type = Const("L")
  /\ Reduced.k = "let"
  /\ stats.whnf = 1
  /\ fvars = <<>>

\* the type at hand with its pending substitution carried out
OpenType(ty, beg, xs) == InstantiateRevRange(ty, beg, Len(xs), xs)
Closed(e) == LooseBVars(e, 0) = {}
ClosedDecl(d) == Closed(d.type) /\ (d.k = "ldecl" => Closed(d.val))

\* C30: the types and values of the declarations made by the call, and the
\* residual type, have no loose bound variable, and the delayed substitution
\* is the one-binder-at-a-time substitution: peeling a binder stores the
\* binder's domain (and value) as they stand in the opened type and opens the
\* body with the new free variable alone; a whnf step acts on the opened type
\* and starts a new substitution range; at count 0 the residual type is the
\* opened type.
C30_Instantiated ==
  /\ [](Peeling =>
          /\ Closed(OpenType(type, j, fvars))
          /\ \A p \in 1..Len(lctx) : ClosedDecl(lctx[p]))
  /\ [](pc \in {"close", "assign"} => Closed(type))
  /\ [](pc = "assign" => Closed(mctx.decls[newMVar].type)
                         /\ \A p \in 1..Len(mctx.decls[newMVar].lctx) :
                              ClosedDecl(mctx.decls[newMVar].lctx[p]))
  /\ [][PeelsBinder =>
          LET open == OpenType(type, j, fvars)
              new == fvars'[Len(fvars')]
              d == lctx'[Len(lctx')]
          IN  /\ Len(lctx') = Len(lctx) + 1
              /\ d.fvarId = new.id
              /\ d.type = IF open.k = "forall" THEN open.dom ELSE open.type
              /\ d.k = "ldecl" <=> open.k = "let"
              /\ open.k = "let" => d.val = open.val
              /\ OpenType(type', j', fvars') = Inst(open.body, 0, 0, 1, <<new>>)]_vars
  /\ [][(pc = "whnf" /\ pc' = "peel") =>
          OpenType(type', j', fvars') = Whnf(OpenType(type, j, fvars))]_vars
  /\ [][(pc = "peel" /\ n = 0) => type' = OpenType(type, j, fvars)]_vars

C30_Witness ==
  /\ pc = "assign"
  /\ stats.whnf = 1
  /\ j = 1
  /\ Len(fvars) = 2
  /\ lctx[Len(lctx)].type = App(Const("Monoid"), fvars[1])
  /\ type = App(App(Const("P"), fvars[1]), fvars[2])

\* C31: a call on a goal whose declaration cannot be fetched returns the error
\* of getMVarDecl in that very step: no comparison of instance arrays, no memo
\* reset, no assignment check, no FVarId minted, no metavariable created, and
\* the state handed back is the state passed in.
C31_UnknownGoal ==
  /\ [][(pc = "idle" /\ calls' # calls /\ entry'.mvarId \notin DOMAIN mctx.decls) =>
          /\ pc' = "idle"
          /\ result' = Error("UnknownMVar")
          /\ mctx' = mctx /\ synthCache' = synthCache /\ ngen' = ngen /\ ctx' = ctx
          /\ saved' = saved /\ saved = <<>>
          /\ stats' = ZeroStats]_vars
  /\ []((Returned /\ ~EntryDeclared) =>
          /\ result = Error("UnknownMVar")
          /\ mctx = entry.mctx /\ synthCache = entry.synthCache /\ ngen = entry.ngen
          /\ stats = ZeroStats)
  /\ []((Returned /\ result.kind = "error" /\ result.err = "UnknownMVar") => ~EntryDeclared)

C31_Witness ==
  /\ Returned
  /\ result = Error("UnknownMVar")
  /\ entry.mvarId = UnknownId
  /\ entry.n = 2
  /\ synthCache # {}
  /\ ~InstancesEqv(ctx.localInstances, mctx.decls[GoalId].localInstances)

\* the expressions an error value holds in its message
MessageExprs(msg) == IF msg.k = "ofExpr" THEN {msg.e} ELSE {}

\* C32: the InsufficientBinders error value holds the remaining type, the term
\* at which peeling stopped (as it stood, or as whnf left it), and the goal.
C32_CarriesType ==
  (pc = "unwind" /\ res.kind = "error" /\ res.err = "InsufficientBinders") =>
    /\ res.mvarId = mvarId
    /\ \/ type \in MessageExprs(res.msg)
       \/ OpenType(type, j, fvars) \in MessageExprs(res.msg)
       \/ Reduced \in MessageExprs(res.msg)

\* C33: every reset of the memo, at the guard or at a registration, pushes the
\* memo held just before it; frames are only popped while unwinding, each pop
\* putting its memo back; the call returns, with a result or with an error,
\* only with every frame popped, so with as many restores as resets and, when
\* the guard has reset, with the memo of the call's entry; the caller's
\* context is never changed.
C33_MemoRestored ==
  /\ [][(stats'.resets = stats.resets + 1 \/ (pc = "idle" /\ stats'.resets = 1)) =>
          /\ Len(saved') = Len(saved) + 1
          /\ IsPrefix(saved, saved')
          /\ synthCache \subseteq saved'[Len(saved')].cache
          /\ saved'[Len(saved')].cache \subseteq synthCache \cup {ctxInsts}
          /\ pc # "expensive" => saved'[Len(saved')].cache = synthCache
          /\ synthCache' = {}]_vars
  /\ [][(pc \notin {"idle", "unwind"} /\ saved' # saved) =>
          stats'.resets = stats.resets + 1]_vars
  /\ [][(pc = "unwind" /\ saved # <<>>) =>
          /\ synthCache' = saved[Len(saved)].cache
          /\ saved' = SubSeq(saved, 1, Len(saved) - 1)
          /\ stats'.restores = stats.restores + 1
          /\ res' = res
          /\ pc' = "unwind"]_vars
  /\ [][(pc # "idle" /\ pc' = "idle") => (pc = "unwind" /\ saved = <<>>)]_vars
  /\ [](pc = "idle" => (saved = <<>> /\ stats.restores = stats.resets))
  /\ []((Returned /\ EntryDeclared
           /\ ~InstancesEqv(ctx.localInstances, EntryDecl.localInstances)) =>
          synthCache = entry.synthCache)
  /\ [][ctx' = ctx]_vars

C33_Witness ==
  /\ Returned
  /\ result.kind = "error"
  /\ result.err = "InsufficientBinders"
  /\ stats.resets = 2
  /\ stats.restores = 2
  /\ stats.whnf = 1
  /\ synthCache = entry.synthCache
  /\ synthCache # {}

\* C34: isClassQuick is asked once per classified hypothesis, so its count
\* tells how many were classified. The k-th hypothesis classified is the k-th
\* free variable introduced: a segment starts where the previous one ended,
\* every continuation runs with all introduced hypotheses classified, and a
\* classified hypothesis is never one of the goal's own context. A successful
\* call has classified each introduced hypothesis exactly once.
C34_ClassifiedOnce ==
  /\ [](pc = "peel" => (stats.quick = j /\ j <= Len(fvars)))
  /\ [](pc = "classify" => (stats.quick = i /\ j <= i /\ i <= Len(fvars)))
  /\ [](pc = "expensive" => (stats.quick = i + 1 /\ j <= i /\ i < Len(fvars)))
  /\ [](pc \in {"whnf", "close", "assign"} => stats.quick = Len(fvars))
  /\ []((pc \in {"classify", "expensive"} /\ i < Len(fvars)) =>
          /\ fvars[i + 1].id \notin FVarIdsOf(mctx.decls[mvarId].lctx)
          /\ \A k \in 1..Len(fvars) : k # i + 1 => fvars[k] # fvars[i + 1])
  /\ [][(pc = "peel" /\ pc' = "classify") => i' = j]_vars
  /\ [][(pc = "whnf" /\ pc' = "peel") => j' = Len(fvars)]_vars
  /\ []((Returned /\ result.kind = "ok") =>
          stats.quick = Len(NewGoal.lctx) - Len(EntryDecl.lctx))

C34_Witness ==
  /\ Returned
  /\ result.kind = "ok"
  /\ stats.whnf = 1
  /\ stats.quick = 2
  /\ Len(NewGoal.lctx) - Len(EntryDecl.lctx) = 2
  /\ Len(EntryDecl.lctx) = 1

\* a call is being started on the goal of the call that has just succeeded
RepeatsOnSameGoal ==
  /\ pc = "idle"
  /\ result.kind = "ok"
  /\ calls' = calls + 1
  /\ entry'.mvarId = entry.mvarId

\* C35: after a successful call on g, g is assigned and the returned goal is
\* declared and open; a further call on g, by any entry point and for any n,
\* starts on an assigned goal, gets no further than the assignment check and
\* returns AlreadyAssigned with the metavariable context (g's assignment and
\* the new goal included) as it was.
C35_NoSecondIntro ==
  /\ []((Returned /\ result.kind = "ok") =>
          /\ IsAssigned(mctx, entry.mvarId)
          /\ result.mvarId \in DOMAIN mctx.decls
          /\ result.mvarId # entry.mvarId
          /\ ~IsAssigned(mctx, result.mvarId))
  /\ [][RepeatsOnSameGoal =>
          (pc' = "checkNotAssigned" /\ IsAssigned(entry'.mctx, entry'.mvarId)
             /\ entry'.mctx = mctx)]_vars
  /\ []((pc # "idle" /\ IsAssigned(entry.mctx, entry.mvarId)) =>
          /\ pc \in {"checkNotAssigned", "unwind"}
          /\ mctx = entry.mctx
          /\ pc = "unwind" => res = Error("AlreadyAssigned"))
  /\ []((Returned /\ EntryDeclared /\ IsAssigned(entry.mctx, entry.mvarId)) =>
          /\ result = Error("AlreadyAssigned")
          /\ mctx = entry.mctx)

C35_Witness ==
  /\ Returned
  /\ calls = 2
  /\ entry.mvarId = GoalId
  /\ entry.api = "intro1"
  /\ result = Error("AlreadyAssigned")
  /\ mctx.eAssignment[GoalId].k = "mvar"
  /\ ~IsAssigned(mctx, mctx.eAssignment[GoalId].id)

\* one introN over syntactic binders, auto-named, with the identifiers ids:
\* each binder opened on its own, outermost first
RECURSIVE SingleIntro(_, _, _)
SingleIntro(ty, lc, ids) ==
  IF ids = <<>> THEN [type |-> ty, lctx |-> lc]
  ELSE LET nm == MkAuxName(lc, ty.name, <<>>)[1]
           lc1 == IF ty.k = "forall"
                  THEN MkLocalDecl(lc, Head(ids), nm, ty.dom, BinderInfo(ty.data))
                  ELSE MkLetDecl(lc, Head(ids), nm, ty.type, ty.val)
       IN  SingleIntro(Inst(ty.body, 0, 0, 1, <<FVar(Head(ids))>>), lc1, Tail(ids))

\* the metavariable an assignment made by introN leads to
RECURSIVE Target(_)
Target(e) ==
  CASE e.k = "mvar" -> e.id
    [] e.k \in {"lam", "let"} -> Target(e.body)
    [] OTHER -> UnknownId

\* the goals whose introduction returned the goal of the call that has returned
Parents == {m \in DOMAIN mctx.eAssignment : Target(mctx.eAssignment[m]) = entry.mvarId}
IdsFrom(lc, p) == [q \in 1..(Len(lc) - p) |-> lc[p + q].fvarId]

\* C36: (1) one auto-named introN(g, n) over n syntactic binders yields the
\* goal SingleIntro describes; (2) when introN(g', b) has succeeded on the goal
\* g' that an auto-named introduction of a binders on g returned, and g has at
\* least a + b syntactic binders, the final goal has the type and the context
\* that SingleIntro gives for g with the a + b identifiers in order, and the
\* b returned identifiers are the last b of them.
C36_Composes ==
  /\ (ReturnedIntroN /\ result.kind = "ok" /\ entry.names = <<>>
        /\ SyntacticBinders(EntryDecl.type) >= entry.n) =>
       LET one == SingleIntro(EntryDecl.type, EntryDecl.lctx, result.fvars)
       IN  /\ Len(result.fvars) = entry.n
           /\ NewGoal.type = one.type
           /\ NewGoal.lctx = one.lctx
  /\ (ReturnedIntroN /\ result.kind = "ok" /\ entry.names = <<>>) =>
       \A g \in Parents :
         LET first == mctx.decls[g]
             p == Len(first.lctx)
             a == Len(EntryDecl.lctx) - p
             idsA == IdsFrom(EntryDecl.lctx, p)
             ids == IdsFrom(NewGoal.lctx, p)
         IN  (/\ SyntacticBinders(first.type) >= a + entry.n
              /\ SingleIntro(first.type, first.lctx, idsA).lctx = EntryDecl.lctx
              /\ SingleIntro(first.type, first.lctx, idsA).type = EntryDecl.type) =>
               /\ Len(ids) = a + entry.n
               /\ ids = idsA \o result.fvars
               /\ NewGoal.type = SingleIntro(first.type, first.lctx, ids).type
               /\ NewGoal.lctx = SingleIntro(first.type, first.lctx, ids).lctx

C36_Witness ==
  /\ ReturnedIntroN
  /\ result.kind = "ok"
  /\ entry.names = <<>>
  /\ entry.n = 2
  /\ Parents = {GoalId}
  /\ mctx.decls[GoalId].type = TExample
  /\ Len(mctx.decls[GoalId].lctx) = 1
  /\ Len(EntryDecl.lctx) = 2
  /\ EntryDecl.lctx[2].userName = <<"a", 1>>
  /\ SingleIntro(TExample, mctx.decls[GoalId].lctx, <<EntryDecl.lctx[2].fvarId>>)
       = [type |-> EntryDecl.type, lctx |-> EntryDecl.lctx]
  /\ NewGoal.type = Const("True")
  /\ NewGoal.lctx[4].type = App(App(Const("Eq"), FVar(EntryDecl.lctx[2].fvarId)),
                                FVar(result.fvars[1]))

DropFirst(xs, k) == SubSeq(xs, k + 1, Len(xs))
Min(a, b) == IF a <= b THEN a ELSE b

\* C37: while a call runs, the names still to be used are the given list
\* less one entry per hypothesis introduced so far; peeling a binder takes the
\* entry at the front (a placeholder too) and names the hypothesis by it, or
\* by the unused-name oracle if the entry is a placeholder or the list is
\* empty; no other step of the loop takes an entry, a whnf step included; a
\* call may succeed with entries left over.
C37_NamesConsumed ==
  /\ [](Peeling => names = DropFirst(entry.names, Min(Len(fvars), Len(entry.names))))
  /\ [][PeelsBinder =>
          /\ names' = IF names = <<>> THEN names ELSE Tail(names)
          /\ lctx'[Len(lctx')].userName =
               IF names = <<>> \/ Head(names) = Placeholder
               THEN GetUnusedName(lctx, type.name)
               ELSE Head(names)]_vars
  /\ [][(Peeling /\ ~PeelsBinder) =>
          (names' = names /\ lctx' = lctx)]_vars

C37_Witness ==
  /\ pc = "close"
  /\ stats.whnf = 1
  /\ entry.names = <<Placeholder, Name("a")>>
  /\ Len(fvars) = 2
  /\ lctx[Len(lctx) - 1].userName = Name("x")
  /\ lctx[Len(lctx)].userName = Name("a")
  /\ names = <<>>

\* 64-bit data words as four 16-bit limbs, most significant first; the limbs
\* tried are the boundary values of the fields the two shifts cut
LimbSamples == {0, 1, 31, 32, 96, 224, 255, 256, 8191, 8192, 57344, 65535}
DataSamples == LimbSamples \X LimbSamples \X LimbSamples \X LimbSamples

\* (data >> 37) mod 8: bits 37..39 are bits 5..7 of the limb holding bits 32..47
Bits37to39(data) == (data[2] \div 32) % 8

\* the same word with one limb replaced
WithLimb(data, k, v) == [data EXCEPT ![k] = v]

ShiftLaw ==
  \A data \in DataSamples :
    /\ BinderInfo(data) \in 0..7
    /\ BinderInfo(data) = Bits37to39(data)
    /\ \A k \in {1, 3, 4}, v \in LimbSamples :
         BinderInfo(WithLimb(data, k, v)) = BinderInfo(data)
    /\ \A v \in LimbSamples :
         (v \div 32) % 8 = (data[2] \div 32) % 8 =>
           BinderInfo(WithLimb(data, 2, v)) = BinderInfo(data)

\* C38: for every data word tried, (data << 24) >> 61 on 64 bits is in 0..7,
\* equals (data >> 37) mod 8 and is unchanged by any change to the other bits;
\* the declaration made for a Forall binder stores that value for the binder's
\* data, and the declaration made for a Let binder has no binder info.
C38_BinderInfoBits ==
  /\ []ShiftLaw
  /\ [][(PeelsBinder /\ type.k = "forall") =>
          /\ lctx'[Len(lctx')].k = "cdecl"
          /\ lctx'[Len(lctx')].bi = Bits37to39(type.data)
          /\ lctx'[Len(lctx')].bi \in 0..7]_vars
  /\ [][(PeelsBinder /\ type.k = "let") =>
          /\ lctx'[Len(lctx')].k = "ldecl"
          /\ "bi" \notin DOMAIN lctx'[Len(lctx')]]_vars

C38_Witness ==
  /\ pc = "peel"
  /\ Len(fvars) = 1
  /\ EntryDecl.type.k = "forall"
  /\ EntryDecl.type.data = DataInstImplicit
  /\ DataInstImplicit[1] = 65535
  /\ lctx[Len(lctx)].bi = 3
  /\ type.k = "let"

====
